---- MODULE Spec2Model ----
(***************************************************************************)
(* Chain_sentinel_ai: the ingestion loop of EnhancedSeiThreatDetector,     *)
(* the rate-limited Hive Intelligence client, the threat processor's       *)
(* handleThreat and the social alert fan-out, as state machines.           *)
(*                                                                         *)
(* Three specifications share the module:                                  *)
(*   Spec       the monitoring loop (start, monitorLoop, analyzeBlock,     *)
(*              processTransaction, stop) against a chain whose head grows *)
(*   SpecHive   HiveIntelligenceService.analyzeTransaction against a clock *)
(*   SpecThreat ThreatProcessor.handleThreat and SocialAlertSystem         *)
(*              .sendAlert for arbitrary alerts and channel outcomes       *)
(***************************************************************************)
EXTENDS Integers, Sequences, FiniteSets, TLC

(***************************************************************************)
(* Bounds of the model.                                                    *)
(***************************************************************************)
\* highest block number the chain reaches
MaxHead == 3
\* longest transaction list of a block
MaxTxs == 2
\* how many blocks behind the true head an RPC answer may be
MaxLag == 1
\* how many ticks the clock of the Hive client runs
MaxTicks == 1
\* how many external calls the Hive client issues in all
MaxSent == 20
\* how many transactions the sliding windows hold in all, under SpecLocal
MaxTracked == 4
\* how far an interaction counter runs, under SpecFrequency
MaxInteractions == 102
\* how many transactions a burst on one recipient has, under SpecWindow
MaxBurst == 12
\* how many of the phrases the parser looks for one response holds
MaxPhrases == 3
\* how many alerts the pipeline hands to handleThreat, under SpecThreat
MaxAlerts == 2
\* how many times start() is called, under SpecRestart
MaxLoops == 2

(***************************************************************************)
(* Program constants.                                                      *)
(***************************************************************************)
\* config.pollingInterval, default of POLLING_INTERVAL
pollingInterval == 200
\* Math.max(100, ...) floor of the adaptive delay
minimumDelay == 100
\* setTimeout(monitorLoop, 2000) in the catch branch
errorBackoff == 2000

\* HiveIntelligenceService.retryCount
retryCount == 2
\* HiveIntelligenceService.retryDelay, in ms
retryDelay == 1000
\* HiveIntelligenceService.maxRequestsPerMinute
maxRequestsPerMinute == 18
\* canMakeRequest: oneMinuteAgo = now - 60000
rateWindowMs == 60000
\* threatThresholds.gasAnomalyThreshold (120000000000 wei), in gwei
gasAnomalyThreshold == 120
\* threatThresholds.flashLoanMinValue (30000000000000000000 wei), in whole SEI
flashLoanMinValue == 30
\* analyzeTransaction: hasComplexInput = tx.input.length > 100
complexInputLength == 100

\* trackTransaction: txList.length > 10
windowCap == 10
\* detectMEVActivity: tx.input.length > 10
mevInputLength == 10
\* detectMEVActivity: recentTxs.length > 2
mevWindowLength == 2
\* detectSuspiciousPatterns: tx.input.length > 1000
creationInputLength == 1000
\* detectContractBehavior: interactions > 100
frequencyThreshold == 100

Max(a, b) == IF a >= b THEN a ELSE b

\* Date.now() - startTime at the end of a pass: the environment decides it
ProcessingTimes == {50, 250}

\* nextPoll of monitorLoop without the floor of Math.max
NextPollNoFloor(elapsed) == pollingInterval - elapsed

\* nextPoll of monitorLoop
NextPoll(elapsed) == Max(minimumDelay, pollingInterval - elapsed)

(***************************************************************************)
(* State of the monitoring loop.                                           *)
(***************************************************************************)
VARIABLES
  chainHead,            \* the chain's real head (environment)
  started,              \* "no" | "yes" | "failed": how start() ended
  monitoringActive,     \* EnhancedSeiThreatDetector.monitoringActive
  currentBlock,         \* EnhancedSeiThreatDetector.currentBlock (the cursor)
  blocksProcessed,      \* stats.blocksProcessed
  transactionsAnalyzed, \* stats.transactionsAnalyzed
  pc,                   \* position of monitorLoop
  latestBlock,          \* monitorLoop's local latestBlock
  blockNum,             \* monitorLoop's local blockNum
  txs,                  \* block.transactions of the block being analysed
  txIdx,                \* index of the transaction being processed
  timerKind,            \* which setTimeout armed the pending timer
  timerDelay,           \* its delay in ms
  timers,               \* pending setTimeout(monitorLoop, ...) callbacks
  processingTime,       \* monitorLoop's local processingTime, in ms
  analysed,             \* history: the blocks analyzeBlock was called for, in call order
  openBlocks,           \* history: blocks whose analyzeBlock was called and has not returned
  txSeen,               \* history: entries of the open block handed to processTransaction, in order
  openTxs,              \* history: entries whose processTransaction has not returned
  startHead,            \* history: the head getLatestBlock answered to start()
  passFrom,             \* history: the cursor at the for loop's initialisation
  raisedBy,             \* history: what threw last in this iteration
  caughtBy,             \* history: which catch handled it
  failedBlocks,         \* history: blocks whose getBlock threw
  fetchedBlocks,        \* history: blocks whose getBlock returned a block
  stopAt,               \* history: blockNum when stop() ran inside a pass, else 0
  stopPc,               \* history: where monitorLoop was when stop() ran
  idleFire              \* history: a timer fired after stop() and returned at once

(***************************************************************************)
(* State of HiveIntelligenceService.                                       *)
(***************************************************************************)
VARIABLES
  hiveOn,               \* config.hiveIntelligence.enabled and .apiKey both set
  now,                  \* Date.now(), in ms
  requestTimestamps,    \* HiveIntelligenceService.requestTimestamps
  requestCount,         \* HiveIntelligenceService.requestCount
  hpc,                  \* position of analyzeTransaction
  htx,                  \* its argument
  attempt,              \* its loop variable
  hres,                 \* what it returned
  sent,                 \* history: the times at which axios.post was issued
  txCalls,              \* history: external calls issued for htx
  waits,                \* history: the retry waits of this call, in ms
  limiterAsked          \* history: canMakeRequest ran in this call

hiveVars == <<hiveOn, now, requestTimestamps, requestCount, hpc, htx, attempt,
              hres, sent, txCalls, waits, limiterAsked>>

(***************************************************************************)
(* State of ThreatProcessor and SocialAlertSystem.                         *)
(***************************************************************************)
VARIABLES
  mitigationEnabled,    \* config.mitigation.enabled
  channels,             \* the channels sendAlert finds configured
  tpc,                  \* position of ThreatProcessor.handleThreat
  threat,               \* its argument
  apc,                  \* position of sendAlert: the channel being awaited
  attempts,             \* history: deliveries tried per channel in this call
  sendDone,             \* history: the last call of sendAlert has returned
  alertCalls,           \* history: calls of sendAlert for this threat
  mitigationCalls,      \* history: calls of executeMitigation for this threat
  threatHistory,        \* EnhancedSeiThreatDetector.threatHistory, by alert id
  threatsDetected,      \* stats.threatsDetected
  emitted,              \* history: the alerts the threat_detected events carried, in order
  steps,                \* history: what was done with this threat, in order
  txSerial,             \* history: the hash of the transaction whose alerts are handled
  firedFor              \* history: the <<detector, hash>> an alert was produced for

pipeVars == <<threatHistory, threatsDetected, emitted, steps, txSerial, firedFor>>

threatVars == <<mitigationEnabled, channels, tpc, threat, apc, attempts,
                sendDone, alertCalls, mitigationCalls, pipeVars>>

(***************************************************************************)
(* State of LocalThreatDetector and of ThreatProcessor.analyzeThreatPatterns.*)
(***************************************************************************)
VARIABLES
  recentTransactions,   \* LocalThreatDetector.recentTransactions, by pair key
  contractInteractions, \* LocalThreatDetector.contractInteractions, by address
  ltx,                  \* the argument of the last detectThreats
  threats,              \* the alerts detectThreats / analyzeThreatPatterns hold
  directed              \* history: payload transactions seen, by recipient

localVars == <<recentTransactions, contractInteractions, ltx, threats, directed>>

(***************************************************************************)
(* State of the response parser and of ThreatProcessor.processHiveThreats. *)
(***************************************************************************)
VARIABLES
  response,             \* searchData.response, the text the service answered
  analysis,             \* the HiveAnalysis parseSearchResponse made of it
  hiveThreats,          \* the alerts processHiveThreats returned
  epc                   \* how far the response has come: "idle" | "received" | "parsed" | "done"

enrichVars == <<response, analysis, hiveThreats, epc>>

timerVars == <<timerKind, timerDelay, timers, processingTime>>
statVars == <<blocksProcessed, transactionsAnalyzed>>
orderHist == <<analysed, openBlocks, txSeen, openTxs>>
raiseHist == <<raisedBy, caughtBy>>
fetchHist == <<failedBlocks, fetchedBlocks>>
stopHist == <<stopAt, stopPc, idleFire>>

loopVars == <<chainHead, started, monitoringActive, currentBlock, statVars, pc,
              latestBlock, blockNum, txs, txIdx, timerVars, orderHist,
              startHead, passFrom, raiseHist, fetchHist, stopHist>>

(***************************************************************************)
(* State of the monitorLoop closures that start() has created.             *)
(***************************************************************************)
VARIABLES
  loops,                \* per startMonitoring() call: position and locals of its monitorLoop
  analysedCount         \* history: per block number, the analyzeBlock calls made for it

restartVars == <<loops, analysedCount>>

vars == <<loopVars, hiveVars, threatVars, localVars, enrichVars, restartVars>>

\* an entry of block.transactions: a transaction object with a hash, or
\* anything `typeof tx === 'object' && tx.hash` rejects (a bare hash string)
TxKinds == {"tx", "skip"}

RECURSIVE SeqsUpTo(_, _)
SeqsUpTo(S, n) ==
  IF n = 0 THEN {<<>>}
  ELSE LET shorter == SeqsUpTo(S, n - 1)
       IN shorter \cup {Append(s, x) : s \in {t \in shorter : Len(t) = n - 1}, x \in S}

TxLists == SeqsUpTo(TxKinds, MaxTxs)

\* what eth_blockNumber may answer when the chain's head is h
Heads(h) == {x \in 0..h : x >= h - MaxLag}

LoopInit ==
  /\ chainHead = 1
  /\ started = "no"
  /\ monitoringActive = FALSE
  /\ currentBlock = 0
  /\ blocksProcessed = 0
  /\ transactionsAnalyzed = 0
  /\ pc = "none"
  /\ latestBlock = 0
  /\ blockNum = 0
  /\ txs = <<>>
  /\ txIdx = 0
  /\ timerKind = "none"
  /\ timerDelay = 0
  /\ timers = 0
  /\ processingTime = 0
  /\ analysed = <<>>
  /\ openBlocks = {}
  /\ txSeen = <<>>
  /\ openTxs = {}
  /\ startHead = 0
  /\ passFrom = 0
  /\ raisedBy = "none"
  /\ caughtBy = "none"
  /\ failedBlocks = {}
  /\ fetchedBlocks = {}
  /\ stopAt = 0
  /\ stopPc = "none"
  /\ idleFire = FALSE

\* the chain produces a block
ChainAdvance ==
  /\ chainHead < MaxHead
  /\ chainHead' = chainHead + 1
  /\ UNCHANGED <<started, monitoringActive, currentBlock, statVars, pc,
                 latestBlock, blockNum, txs, txIdx, timerVars, orderHist,
                 startHead, passFrom, raiseHist, fetchHist, stopHist>>
  /\ UNCHANGED <<hiveVars, threatVars, localVars, enrichVars, restartVars>>

\* start(): the cursor is the head eth_blockNumber answers, the flag is set
\* and monitorLoop runs at once up to its first await (getLatestBlock)
StartOk ==
  /\ started = "no"
  /\ \E h \in Heads(chainHead) :
       /\ startHead' = h
       /\ currentBlock' = h
  /\ started' = "yes"
  /\ monitoringActive' = TRUE
  /\ pc' = "getLatest"
  /\ UNCHANGED <<chainHead, statVars, latestBlock, blockNum, txs, txIdx,
                 timerVars, orderHist, passFrom, raiseHist, fetchHist, stopHist>>
  /\ UNCHANGED <<hiveVars, threatVars, localVars, enrichVars, restartVars>>

\* start(): getLatestBlock throws, start() rethrows, nothing is running
StartFail ==
  /\ started = "no"
  /\ started' = "failed"
  /\ UNCHANGED <<chainHead, monitoringActive, currentBlock, statVars, pc,
                 latestBlock, blockNum, txs, txIdx, timerVars, orderHist,
                 startHead, passFrom, raiseHist, fetchHist, stopHist>>
  /\ UNCHANGED <<hiveVars, threatVars, localVars, enrichVars, restartVars>>

\* stop(): clears the flag and nothing else
Stop ==
  /\ monitoringActive
  /\ monitoringActive' = FALSE
  /\ stopPc' = pc
  /\ stopAt' = IF pc \in {"getBlock", "inTx"} THEN blockNum ELSE 0
  /\ UNCHANGED <<chainHead, started, currentBlock, statVars, pc, latestBlock,
                 blockNum, txs, txIdx, timerVars, orderHist, startHead,
                 passFrom, raiseHist, fetchHist, idleFire>>
  /\ UNCHANGED <<hiveVars, threatVars, localVars, enrichVars, restartVars>>

\* MonitorLoop without its first statement: the running flag is not tested
MonitorLoopNoFlagCheck ==
  /\ pc = "timer"
  /\ timers > 0
  /\ timers' = timers - 1
  /\ pc' = "getLatest"
  /\ raisedBy' = "none"
  /\ caughtBy' = "none"
  /\ timerKind' = "none"
  /\ timerDelay' = 0
  /\ processingTime' = 0
  /\ UNCHANGED <<chainHead, started, monitoringActive, currentBlock, statVars,
                 latestBlock, blockNum, txs, txIdx, orderHist, startHead,
                 passFrom, fetchHist, stopHist>>
  /\ UNCHANGED <<hiveVars, threatVars, localVars, enrichVars, restartVars>>

\* the timer fires: monitorLoop's first statement tests the flag
MonitorLoop ==
  /\ pc = "timer"
  /\ timers > 0
  /\ timers' = timers - 1
  /\ IF ~monitoringActive
     THEN /\ pc' = "stopped"
          /\ idleFire' = TRUE
          /\ UNCHANGED raiseHist
     ELSE /\ pc' = "getLatest"
          /\ raisedBy' = "none"
          /\ caughtBy' = "none"
          /\ UNCHANGED idleFire
  /\ timerKind' = "none"
  /\ timerDelay' = 0
  /\ processingTime' = 0
  /\ UNCHANGED <<chainHead, started, monitoringActive, currentBlock, statVars,
                 latestBlock, blockNum, txs, txIdx, orderHist, startHead,
                 passFrom, fetchHist, stopAt, stopPc>>
  /\ UNCHANGED <<hiveVars, threatVars, localVars, enrichVars, restartVars>>

\* the end of the try block: nextPoll and setTimeout(monitorLoop, nextPoll)
ScheduleNext ==
  /\ pc' = "timer"
  /\ timers' = timers + 1
  /\ timerKind' = "adaptive"
  /\ processingTime' \in ProcessingTimes
  /\ timerDelay' = NextPoll(processingTime')

\* analyzeBlock(n) is called: it awaits getBlock(n)
\* open: the calls still open at that moment
CallAnalyzeBlock(n, open) ==
  /\ blockNum' = n
  /\ pc' = "getBlock"
  /\ analysed' = Append(analysed, n)
  /\ openBlocks' = open \cup {n}
  /\ txSeen' = <<>>

\* AfterAnalyzeBlock without `this.currentBlock = latestBlock`
AfterAnalyzeBlockStaleCursor(r, c) ==
  /\ blocksProcessed' = blocksProcessed + 1
  /\ txs' = <<>>
  /\ txIdx' = 0
  /\ raisedBy' = r
  /\ caughtBy' = c
  /\ IF blockNum + 1 <= latestBlock
     THEN /\ CallAnalyzeBlock(blockNum + 1, openBlocks \ {blockNum})
          /\ UNCHANGED <<currentBlock, timerVars>>
     ELSE /\ blockNum' = blockNum + 1
          /\ currentBlock' = currentBlock
          /\ openBlocks' = openBlocks \ {blockNum}
          /\ ScheduleNext
          /\ UNCHANGED <<analysed, txSeen>>

\* AfterAnalyzeBlock with a for loop that tests the running flag and leaves
\* the range when stop() has run
AfterAnalyzeBlockHonoursStop(r, c) ==
  /\ blocksProcessed' = blocksProcessed + 1
  /\ txs' = <<>>
  /\ txIdx' = 0
  /\ raisedBy' = r
  /\ caughtBy' = c
  /\ IF blockNum + 1 <= latestBlock /\ monitoringActive
     THEN /\ CallAnalyzeBlock(blockNum + 1, openBlocks \ {blockNum})
          /\ UNCHANGED <<currentBlock, timerVars>>
     ELSE /\ blockNum' = blockNum + 1
          /\ currentBlock' = blockNum
          /\ openBlocks' = openBlocks \ {blockNum}
          /\ ScheduleNext
          /\ UNCHANGED <<analysed, txSeen>>

\* analyzeBlock(blockNum) has returned: blocksProcessed++, blockNum++, then the
\* next analyzeBlock or, past latestBlock, the cursor's advance and the timer.
\* r and c are what threw and who caught it.
AfterAnalyzeBlock(r, c) ==
  /\ blocksProcessed' = blocksProcessed + 1
  /\ txs' = <<>>
  /\ txIdx' = 0
  /\ raisedBy' = r
  /\ caughtBy' = c
  /\ IF blockNum + 1 <= latestBlock
     THEN /\ CallAnalyzeBlock(blockNum + 1, openBlocks \ {blockNum})
          /\ UNCHANGED <<currentBlock, timerVars>>
     ELSE /\ blockNum' = blockNum + 1
          /\ currentBlock' = latestBlock
          /\ openBlocks' = openBlocks \ {blockNum}
          /\ ScheduleNext
          /\ UNCHANGED <<analysed, txSeen>>

\* the first entry at or after i that `typeof tx === 'object' && tx.hash`
\* lets through, or Len + 1
RECURSIVE NextTx(_, _)
NextTx(list, i) ==
  IF i > Len(list) THEN i
  ELSE IF list[i] = "skip" THEN NextTx(list, i + 1)
  ELSE i

\* ContinueTxs without the await on processTransaction: the entry handed
\* over before is still in progress when the next one is handed over
ContinueTxsNoAwait(list, i, r, c) ==
  LET j == NextTx(list, i)
  IN IF j > Len(list)
     THEN /\ AfterAnalyzeBlock(r, c)
          /\ openTxs' = {}
     ELSE /\ pc' = "inTx"
          /\ txs' = list
          /\ txIdx' = j
          /\ txSeen' = Append(txSeen, <<blockNum, j>>)
          /\ openTxs' = openTxs \cup {<<blockNum, j>>}
          /\ raisedBy' = r
          /\ caughtBy' = c
          /\ UNCHANGED <<currentBlock, blocksProcessed, blockNum, timerVars,
                         analysed, openBlocks>>

\* the for loop of analyzeBlock from entry i on, the entry in progress (if
\* any) having returned: the next entry with a hash is handed to
\* processTransaction; after the last one analyzeBlock returns
ContinueTxs(list, i, r, c) ==
  LET j == NextTx(list, i)
  IN IF j > Len(list)
     THEN /\ AfterAnalyzeBlock(r, c)
          /\ openTxs' = {}
     ELSE /\ pc' = "inTx"
          /\ txs' = list
          /\ txIdx' = j
          /\ txSeen' = Append(txSeen, <<blockNum, j>>)
          /\ openTxs' = (openTxs \ {<<blockNum, txIdx>>}) \cup {<<blockNum, j>>}
          /\ raisedBy' = r
          /\ caughtBy' = c
          /\ UNCHANGED <<currentBlock, blocksProcessed, blockNum, timerVars,
                         analysed, openBlocks>>

\* GetLatestBlockOk with `latestBlock !== this.currentBlock` for
\* `latestBlock > this.currentBlock`: with a stale head the for loop runs no
\* block and the cursor is set back
GetLatestBlockOkNotEqual ==
  /\ pc = "getLatest"
  /\ \E h \in Heads(chainHead) :
       /\ latestBlock' = h
       /\ passFrom' = currentBlock
       /\ IF h > currentBlock
          THEN /\ CallAnalyzeBlock(currentBlock + 1, openBlocks)
               /\ UNCHANGED <<timerVars, currentBlock>>
          ELSE /\ ScheduleNext
               /\ currentBlock' = h
               /\ UNCHANGED <<blockNum, analysed, openBlocks, txSeen>>
  /\ UNCHANGED <<chainHead, started, monitoringActive, statVars,
                 txs, txIdx, openTxs, startHead, raiseHist, fetchHist, stopHist>>
  /\ UNCHANGED <<hiveVars, threatVars, localVars, enrichVars, restartVars>>

\* getLatestBlock answers h: the for loop starts at cursor + 1 when h is
\* past the cursor, else the pass ends
GetLatestBlockOk ==
  /\ pc = "getLatest"
  /\ \E h \in Heads(chainHead) :
       /\ latestBlock' = h
       /\ passFrom' = currentBlock
       /\ IF h > currentBlock
          THEN /\ CallAnalyzeBlock(currentBlock + 1, openBlocks)
               /\ UNCHANGED timerVars
          ELSE /\ ScheduleNext
               /\ UNCHANGED <<blockNum, analysed, openBlocks, txSeen>>
  /\ UNCHANGED <<chainHead, started, monitoringActive, currentBlock, statVars,
                 txs, txIdx, openTxs, startHead, raiseHist, fetchHist, stopHist>>
  /\ UNCHANGED <<hiveVars, threatVars, localVars, enrichVars, restartVars>>

\* getLatestBlock throws: monitorLoop's catch arms the 2000 ms timer
GetLatestBlockFail ==
  /\ pc = "getLatest"
  /\ raisedBy' = "getLatestBlock"
  /\ caughtBy' = "monitorLoop"
  /\ pc' = "timer"
  /\ timers' = timers + 1
  /\ timerKind' = "backoff"
  /\ timerDelay' = errorBackoff
  /\ UNCHANGED processingTime
  /\ UNCHANGED <<chainHead, started, monitoringActive, currentBlock, statVars,
                 latestBlock, blockNum, txs, txIdx, orderHist, startHead,
                 passFrom, fetchHist, stopHist>>
  /\ UNCHANGED <<hiveVars, threatVars, localVars, enrichVars, restartVars>>

\* getBlock(blockNum) throws: analyzeBlock's catch logs it and returns
GetBlockFail ==
  /\ pc = "getBlock"
  /\ failedBlocks' = failedBlocks \cup {blockNum}
  /\ AfterAnalyzeBlock("getBlock", "analyzeBlock")
  /\ UNCHANGED <<chainHead, started, monitoringActive, transactionsAnalyzed,
                 latestBlock, openTxs, startHead, passFrom, fetchedBlocks,
                 stopHist>>
  /\ UNCHANGED <<hiveVars, threatVars, localVars, enrichVars, restartVars>>

\* getBlock answers null, or a block without transactions: analyzeBlock returns
GetBlockEmpty ==
  /\ pc = "getBlock"
  /\ AfterAnalyzeBlock(raisedBy, caughtBy)
  /\ UNCHANGED <<chainHead, started, monitoringActive, transactionsAnalyzed,
                 latestBlock, openTxs, startHead, passFrom, fetchHist, stopHist>>
  /\ UNCHANGED <<hiveVars, threatVars, localVars, enrichVars, restartVars>>

\* getBlock answers a block: its transactions are walked in list order
GetBlockOk ==
  /\ pc = "getBlock"
  /\ fetchedBlocks' = fetchedBlocks \cup {blockNum}
  /\ \E list \in TxLists : ContinueTxs(list, 1, raisedBy, caughtBy)
  /\ UNCHANGED <<chainHead, started, monitoringActive, transactionsAnalyzed,
                 latestBlock, startHead, passFrom, failedBlocks, stopHist>>
  /\ UNCHANGED <<hiveVars, threatVars, localVars, enrichVars, restartVars>>

\* ProcessTransaction without the try/catch of processTransaction: what the
\* analysis or the handling of an alert threw reaches the catch of
\* analyzeBlock, which ends the block
ProcessTransactionNoCatch ==
  /\ pc = "inTx"
  /\ \E threw \in BOOLEAN :
       IF threw
       THEN /\ UNCHANGED transactionsAnalyzed
            /\ AfterAnalyzeBlock("analysis", "analyzeBlock")
            /\ openTxs' = {}
       ELSE /\ transactionsAnalyzed' = transactionsAnalyzed + 1
            /\ ContinueTxs(txs, txIdx + 1, raisedBy, caughtBy)
  /\ UNCHANGED <<chainHead, started, monitoringActive, latestBlock, startHead,
                 passFrom, fetchHist, stopHist>>
  /\ UNCHANGED <<hiveVars, threatVars, localVars, enrichVars, restartVars>>

\* processTransaction returns (its catch absorbs whatever the analysis or the
\* handling of an alert threw): transactionsAnalyzed++, then the next entry
ProcessTransaction ==
  /\ pc = "inTx"
  /\ transactionsAnalyzed' = transactionsAnalyzed + 1
  /\ \E threw \in BOOLEAN :
       ContinueTxs(txs, txIdx + 1,
                   IF threw THEN "analysis" ELSE raisedBy,
                   IF threw THEN "processTransaction" ELSE caughtBy)
  /\ UNCHANGED <<chainHead, started, monitoringActive, latestBlock, startHead,
                 passFrom, fetchHist, stopHist>>
  /\ UNCHANGED <<hiveVars, threatVars, localVars, enrichVars, restartVars>>

Next ==
  \/ ChainAdvance
  \/ StartOk
  \/ StartFail
  \/ Stop
  \/ MonitorLoop
  \/ GetLatestBlockOk
  \/ GetLatestBlockFail
  \/ GetBlockFail
  \/ GetBlockEmpty
  \/ GetBlockOk
  \/ ProcessTransaction

(***************************************************************************)
(* start() and stop() called any number of times: every start() runs       *)
(* startMonitoring(), which makes a monitorLoop closure of its own; all of *)
(* them share monitoringActive and currentBlock.                           *)
(***************************************************************************)
LoopIds == 1..MaxLoops

NoLoop == [pc |-> "none", latestBlock |-> 0, blockNum |-> 0]

RestartInit ==
  /\ loops = [i \in LoopIds |-> NoLoop]
  /\ analysedCount = [b \in 1..(MaxHead + 1) |-> 0]

\* start(), whatever the state of the detector: the cursor is set to the head
\* eth_blockNumber answers, the flag is set, and startMonitoring() runs a new
\* monitorLoop up to its first await
Start ==
  /\ \E i \in LoopIds :
       /\ loops[i] = NoLoop
       /\ \A j \in LoopIds : j < i => loops[j] # NoLoop
       /\ loops' = [loops EXCEPT ![i] = [NoLoop EXCEPT !.pc = "getLatest"]]
  /\ \E h \in Heads(chainHead) : currentBlock' = h
  /\ monitoringActive' = TRUE
  /\ UNCHANGED <<chainHead, started, statVars, pc, latestBlock, blockNum, txs,
                 txIdx, timerVars, orderHist, startHead, passFrom, raiseHist,
                 fetchHist, stopHist>>
  /\ UNCHANGED analysedCount
  /\ UNCHANGED <<hiveVars, threatVars, localVars, enrichVars>>

\* a monitorLoop's getLatestBlock answers: with a head past the cursor the
\* for loop starts at the cursor's successor, else the next timer is armed
LoopGetLatestBlock ==
  /\ \E i \in LoopIds, h \in Heads(chainHead) :
       /\ loops[i].pc = "getLatest"
       /\ IF h > currentBlock
          THEN /\ loops' = [loops EXCEPT ![i] = [pc |-> "analyze", latestBlock |-> h,
                                                 blockNum |-> currentBlock + 1]]
               /\ analysedCount' = [analysedCount EXCEPT ![currentBlock + 1] = @ + 1]
          ELSE /\ loops' = [loops EXCEPT ![i] = [pc |-> "timer", latestBlock |-> h,
                                                 blockNum |-> 0]]
               /\ UNCHANGED analysedCount
  /\ UNCHANGED loopVars
  /\ UNCHANGED <<hiveVars, threatVars, localVars, enrichVars>>

\* a monitorLoop's analyzeBlock(blockNum) returns: blocksProcessed++, then
\* the next block of its range or, past its latestBlock, the cursor is set
\* and the next timer armed
LoopAnalyzeBlockReturns ==
  /\ \E i \in LoopIds :
       /\ loops[i].pc = "analyze"
       /\ IF loops[i].blockNum + 1 <= loops[i].latestBlock
          THEN /\ loops' = [loops EXCEPT ![i].blockNum = @ + 1]
               /\ analysedCount' = [analysedCount EXCEPT ![loops[i].blockNum + 1] = @ + 1]
               /\ UNCHANGED currentBlock
          ELSE /\ loops' = [loops EXCEPT ![i].pc = "timer", ![i].blockNum = 0]
               /\ currentBlock' = loops[i].latestBlock
               /\ UNCHANGED analysedCount
  /\ blocksProcessed' = blocksProcessed + 1
  /\ UNCHANGED <<chainHead, started, monitoringActive, transactionsAnalyzed, pc,
                 latestBlock, blockNum, txs, txIdx, timerVars, orderHist,
                 startHead, passFrom, raiseHist, fetchHist, stopHist>>
  /\ UNCHANGED <<hiveVars, threatVars, localVars, enrichVars>>

\* a monitorLoop's timer fires: it returns at once with the flag cleared,
\* else it asks for the head
LoopTimer ==
  /\ \E i \in LoopIds :
       /\ loops[i].pc = "timer"
       /\ loops' = [loops EXCEPT ![i].pc = IF monitoringActive THEN "getLatest"
                                           ELSE "ended"]
  /\ UNCHANGED analysedCount
  /\ UNCHANGED loopVars
  /\ UNCHANGED <<hiveVars, threatVars, localVars, enrichVars>>

NextRestart ==
  \/ ChainAdvance
  \/ Start
  \/ Stop
  \/ LoopGetLatestBlock
  \/ LoopAnalyzeBlockReturns
  \/ LoopTimer

(***************************************************************************)
(* HiveIntelligenceService.analyzeTransaction.                             *)
(***************************************************************************)
NoTx == [value |-> 0, gasPrice |-> 0, inputLen |-> 0]

\* the transactions handed to analyzeTransaction: value in whole SEI, gas
\* price in gwei, length of tx.input; the first two meet no eligibility
\* test (the second sits on all three thresholds), the others one each
HiveTxs ==
  { [value |-> 1, gasPrice |-> 50, inputLen |-> 2],
    [value |-> 30, gasPrice |-> 120, inputLen |-> 100],
    [value |-> 31, gasPrice |-> 50, inputLen |-> 2],
    [value |-> 1, gasPrice |-> 121, inputLen |-> 2],
    [value |-> 1, gasPrice |-> 50, inputLen |-> 101] }

\* what the external call may end in: a rejected promise (HTTP error,
\* timeout), a response with text, a response without one, a response whose
\* `response` is no string (toLowerCase throws)
CallOutcomes == {"fail", "text", "empty", "malformed"}

HiveInit ==
  /\ hiveOn \in BOOLEAN
  /\ now = 0
  /\ requestTimestamps = <<>>
  /\ requestCount = 0
  /\ hpc = "idle"
  /\ htx = NoTx
  /\ attempt = 0
  /\ hres = "none"
  /\ sent = <<>>
  /\ txCalls = 0
  /\ waits = <<>>
  /\ limiterAsked = FALSE

\* resolution of the clock: the window of the limiter. One call of
\* analyzeTransaction lasts at most 8000 + 1000 + 8000 ms (two attempts with
\* the axios timeout, one retry wait), less than a tick, so the clock reads
\* the same at every step of a call and moves between calls
TickMs == rateWindowMs

\* canMakeRequest's filter: the timestamps younger than one minute at time t
Purged(stamps, t) == SelectSeq(stamps, LAMBDA x : x > t - rateWindowMs)

\* canMakeRequest with `<=` for `<`
CanMakeRequestAtMost(stamps) == Len(stamps) <= maxRequestsPerMinute

\* canMakeRequest's answer on the purged window
CanMakeRequest(stamps) == Len(stamps) < maxRequestsPerMinute

\* the eligibility test with `>=` for `>` on the gas price
EligibleAtLeast(tx) ==
  \/ tx.value > flashLoanMinValue
  \/ tx.gasPrice >= gasAnomalyThreshold
  \/ tx.inputLen > complexInputLength

\* isHighValue || isHighGas || hasComplexInput
Eligible(tx) ==
  \/ tx.value > flashLoanMinValue
  \/ tx.gasPrice > gasAnomalyThreshold
  \/ tx.inputLen > complexInputLength

\* time passes between two calls of analyzeTransaction
HiveTick ==
  /\ hpc = "idle"
  /\ now + TickMs <= MaxTicks * TickMs
  /\ now' = now + TickMs
  /\ UNCHANGED <<hiveOn, requestTimestamps, requestCount, hpc, htx, attempt,
                 hres, sent, txCalls, waits, limiterAsked>>
  /\ UNCHANGED <<loopVars, threatVars, localVars, enrichVars, restartVars>>

\* analyzeTransaction(tx) up to its first await: the configuration gate,
\* canMakeRequest (which purges the window), the eligibility test, then the
\* first axios.post
AnalyzeTransactionOf(tx) ==
  /\ htx' = tx
  /\ waits' = <<>>
  /\ IF ~hiveOn
     THEN /\ hres' = "null"
          /\ hpc' = "done"
          /\ attempt' = 0
          /\ txCalls' = 0
          /\ limiterAsked' = FALSE
          /\ UNCHANGED <<requestTimestamps, sent>>
     ELSE /\ requestTimestamps' = Purged(requestTimestamps, now)
          /\ limiterAsked' = TRUE
          /\ IF ~CanMakeRequest(requestTimestamps') \/ ~Eligible(tx)
             THEN /\ hres' = "null"
                  /\ hpc' = "done"
                  /\ attempt' = 0
                  /\ txCalls' = 0
                  /\ UNCHANGED sent
             ELSE /\ hres' = "none"
                  /\ hpc' = "call"
                  /\ attempt' = 1
                  /\ txCalls' = 1
                  /\ sent' = Append(sent, now)
  /\ UNCHANGED <<hiveOn, now, requestCount>>

\* analyzeTransaction called on its own, for a transaction of HiveTxs
AnalyzeTransaction ==
  /\ hpc = "idle"
  /\ Len(sent) + retryCount <= MaxSent
  /\ \E tx \in HiveTxs : AnalyzeTransactionOf(tx)
  /\ UNCHANGED <<loopVars, threatVars, localVars, enrichVars, restartVars>>

\* the catch of the retry loop with `attempt > this.retryCount`
RetryCatchOneMore ==
  IF attempt > retryCount
  THEN /\ hres' = "null"
       /\ hpc' = "done"
       /\ UNCHANGED waits
  ELSE /\ hres' = "none"
       /\ hpc' = "wait"
       /\ waits' = Append(waits, retryDelay * attempt)

\* the catch of the retry loop, at time t: null after the last attempt, else
\* the wait of retryDelay * attempt
RetryCatch ==
  IF attempt = retryCount
  THEN /\ hres' = "null"
       /\ hpc' = "done"
       /\ UNCHANGED waits
  ELSE /\ hres' = "none"
       /\ hpc' = "wait"
       /\ waits' = Append(waits, retryDelay * attempt)

\* the awaited axios.post settles, with the `return` after a parsed response
\* missing: the loop goes on to its next attempt
CallSettlesNoReturn ==
  /\ hpc = "call"
  /\ \E outcome \in CallOutcomes :
       /\ IF outcome = "fail"
          THEN /\ RetryCatch
               /\ UNCHANGED <<requestTimestamps, requestCount>>
          ELSE /\ requestTimestamps' = Append(requestTimestamps, now)
               /\ requestCount' = requestCount + 1
               /\ IF outcome = "malformed"
                  THEN RetryCatch
                  ELSE /\ hres' = IF outcome = "text" THEN "analysis" ELSE "null"
                       /\ hpc' = IF attempt = retryCount THEN "done" ELSE "wait"
                       /\ UNCHANGED waits
  /\ UNCHANGED <<hiveOn, now, htx, attempt, sent, txCalls, limiterAsked>>
  /\ UNCHANGED <<loopVars, threatVars, localVars, enrichVars, restartVars>>

\* the awaited axios.post settles: on a response recordRequest() stamps the
\* window and the text is parsed; a rejection, or a throw of the parser, goes
\* to the catch
CallSettles ==
  /\ hpc = "call"
  /\ \E outcome \in CallOutcomes :
       /\ IF outcome = "fail"
          THEN /\ RetryCatch
               /\ UNCHANGED <<requestTimestamps, requestCount>>
          ELSE /\ requestTimestamps' = Append(requestTimestamps, now)
               /\ requestCount' = requestCount + 1
               /\ IF outcome = "malformed"
                  THEN RetryCatch
                  ELSE /\ hres' = IF outcome = "text" THEN "analysis" ELSE "null"
                       /\ hpc' = "done"
                       /\ UNCHANGED waits
  /\ UNCHANGED <<hiveOn, now, htx, attempt, sent, txCalls, limiterAsked>>
  /\ UNCHANGED <<loopVars, threatVars, localVars, enrichVars, restartVars>>

\* the retry wait is over: the next attempt issues axios.post again
RetryCall ==
  /\ hpc = "wait"
  /\ sent' = Append(sent, now)
  /\ attempt' = attempt + 1
  /\ txCalls' = txCalls + 1
  /\ hpc' = "call"
  /\ UNCHANGED <<hiveOn, now, requestTimestamps, requestCount, htx, hres, waits,
                 limiterAsked>>
  /\ UNCHANGED <<loopVars, threatVars, localVars, enrichVars, restartVars>>

\* the caller takes the result; the locals of the call are gone
AnalyzeReturns ==
  /\ hpc = "done"
  /\ hpc' = "idle"
  /\ htx' = NoTx
  /\ attempt' = 0
  /\ hres' = "none"
  /\ txCalls' = 0
  /\ waits' = <<>>
  /\ limiterAsked' = FALSE
  /\ UNCHANGED <<hiveOn, now, requestTimestamps, requestCount, sent>>
  /\ UNCHANGED <<loopVars, threatVars, localVars, enrichVars, restartVars>>

NextHive ==
  \/ HiveTick
  \/ AnalyzeTransaction
  \/ CallSettles
  \/ RetryCall
  \/ AnalyzeReturns

(***************************************************************************)
(* ThreatProcessor.handleThreat, executeMitigation and                     *)
(* SocialAlertSystem.sendAlert.                                            *)
(***************************************************************************)
Severities == {"low", "medium", "high", "critical"}

\* threat.confidence in hundredths: below, on and above the 0.8 of the gate
Confidences == {50, 80, 90}

ThreatAlerts == [severity : Severities, confidence : Confidences,
                 mitigated : {FALSE}]

NoThreat == [severity |-> "none", confidence |-> 0, mitigated |-> FALSE]

\* the order in which sendAlert goes through the channels
ChannelOrder == <<"discord", "slack", "telegram">>

Channels == {ChannelOrder[i] : i \in DOMAIN ChannelOrder}

NoAttempts == [c \in Channels |-> 0]

\* the detectors whose alerts are handled: one heuristic, one of the
\* enrichment; the prefix of the alert id names the detector
Detectors == {"gas_anomaly", "hive_rug_pull"}

\* the type the detector gives its alerts
TypeOf(d) == IF d = "hive_rug_pull" THEN "rug_pull" ELSE "suspicious_pattern"

\* the alert id with the transaction hash alone
AlertIdOfHash(d, hash) == <<"alert", hash>>

\* the alert id `<detector>_${tx.hash}_${Date.now()}`; the time, which only
\* tells more ids apart, is left out
AlertId(d, hash) == <<d, hash>>

\* a ThreatAlert made with `mitigated: true`
ProducedAlertMitigated(d, hash, t) ==
  [id |-> AlertId(d, hash), type |-> TypeOf(d), severity |-> t.severity,
   confidence |-> t.confidence, transactionHash |-> hash,
   blockNumber |-> hash, mitigated |-> TRUE]

\* the ThreatAlert detector d makes for the transaction of that hash, with
\* the severity and confidence of t
ProducedAlert(d, hash, t) ==
  [id |-> AlertId(d, hash), type |-> TypeOf(d), severity |-> t.severity,
   confidence |-> t.confidence, transactionHash |-> hash,
   blockNumber |-> hash, mitigated |-> FALSE]

ThreatInit ==
  /\ mitigationEnabled \in BOOLEAN
  /\ channels \in SUBSET Channels
  /\ tpc = "idle"
  /\ threat = NoThreat
  /\ apc = "none"
  /\ attempts = NoAttempts
  /\ sendDone = FALSE
  /\ alertCalls = 0
  /\ mitigationCalls = 0
  /\ threatHistory = <<>>
  /\ threatsDetected = 0
  /\ emitted = <<>>
  /\ steps = <<>>
  /\ txSerial = 0
  /\ firedFor = {}

\* the first channel at or after position i of the order whose `if` holds,
\* "none" when there is none
ChannelFrom(i) ==
  LET later == {j \in DOMAIN ChannelOrder : j >= i /\ ChannelOrder[j] \in channels}
  IN  IF later = {} THEN "none"
      ELSE ChannelOrder[CHOOSE j \in later : \A k \in later : j <= k]

Position(c) == CHOOSE i \in DOMAIN ChannelOrder : ChannelOrder[i] = c

\* threat.severity === 'medium' || ... 'high' || ... 'critical'
Alertable(t) == t.severity \in {"medium", "high", "critical"}

\* MitigationGate with `>=` for `>`
MitigationGateAtLeast(t) ==
  /\ mitigationEnabled
  /\ t.severity = "critical"
  /\ t.confidence >= 80

\* the condition of the auto-mitigation branch of handleThreat
MitigationGate(t) ==
  /\ mitigationEnabled
  /\ t.severity = "critical"
  /\ t.confidence > 80

\* sendAlert(threat), called at position `at` of the handler after what
\* `before` lists was done, runs to its first await; with no channel
\* configured it has nothing to await
CallSendAlert(at, before) ==
  /\ alertCalls' = alertCalls + 1
  /\ steps' = Append(before, <<"sendAlert", threat'.mitigated>>)
  /\ apc' = ChannelFrom(1)
  /\ attempts' = IF apc' = "none" THEN NoAttempts
                 ELSE [NoAttempts EXCEPT ![apc'] = 1]
  /\ sendDone' = (apc' = "none")
  /\ tpc' = at

\* executeMitigation(t) without `threat.mitigated = true`
ExecuteMitigationUnflagged(t, history) ==
  /\ mitigationCalls' = mitigationCalls + 1
  /\ threat' = t
  /\ threatHistory' = history
  /\ CallSendAlert("mitigationAlert", steps \o << <<"mitigation">> >>)

\* executeMitigation(t): the actions of the hook, then the flag is set on
\* the alert, which is the object the history holds, then the alert goes
\* out again
ExecuteMitigation(t, history) ==
  /\ mitigationCalls' = mitigationCalls + 1
  /\ threat' = [t EXCEPT !.mitigated = TRUE]
  /\ threatHistory' = [history EXCEPT ![t.id].mitigated = TRUE]
  /\ CallSendAlert("mitigationAlert",
                   steps \o << <<"mitigation">>, <<"mitigated">> >>)

\* the auto-mitigation branch of handleThreat
MitigationBranch(t, history) ==
  IF MitigationGate(t)
  THEN ExecuteMitigation(t, history)
  ELSE /\ tpc' = "done"
       /\ threat' = t
       /\ threatHistory' = history
       /\ UNCHANGED <<apc, attempts, sendDone, alertCalls, mitigationCalls, steps>>

\* ThreatProcessor.handleThreat with the test of the severity left out
HandleThreatOfAny(t, history) ==
  /\ threat' = t
  /\ threatHistory' = history
  /\ CallSendAlert("alert", <<>>)
  /\ UNCHANGED mitigationCalls

\* ThreatProcessor.handleThreat(t) up to its first await, the history being
\* as the caller left it
HandleThreatOf(t, history) ==
  IF Alertable(t)
  THEN /\ threat' = t
       /\ threatHistory' = history
       /\ CallSendAlert("alert", <<>>)
       /\ UNCHANGED mitigationCalls
  ELSE MitigationBranch(t, history)

\* the for loop of processTransaction hands the next alert of the list to
\* EnhancedSeiThreatDetector.handleThreat: it is stored under its id and
\* counted, then ThreatProcessor.handleThreat runs to its first await. The
\* alert is of the transaction in hand or of the next one (hashes tell
\* transactions apart) and of a detector that has not fired for it
HandleThreat ==
  /\ tpc = "idle"
  /\ threatsDetected < MaxAlerts
  /\ \E t \in ThreatAlerts, d \in Detectors,
        hash \in {h \in {txSerial, txSerial + 1} : h > 0} :
       /\ <<d, hash>> \notin firedFor
       /\ firedFor' = firedFor \cup {<<d, hash>>}
       /\ txSerial' = hash
       /\ threatsDetected' = threatsDetected + 1
       /\ LET alert == ProducedAlert(d, hash, t)
          IN  HandleThreatOf(alert,
                             [i \in DOMAIN threatHistory \cup {alert.id} |->
                                IF i = alert.id THEN alert ELSE threatHistory[i]])
  /\ UNCHANGED <<mitigationEnabled, channels, emitted>>
  /\ UNCHANGED <<loopVars, hiveVars, localVars, enrichVars, restartVars>>

\* the awaited delivery on channel apc settles: fulfilled, sendAlert goes on
\* to the next configured channel; rejected, its one catch ends the call
DeliverySettles ==
  /\ tpc \in {"alert", "mitigationAlert"}
  /\ apc \in Channels
  /\ ~sendDone
  /\ \E ok \in BOOLEAN :
       LET next == IF ok THEN ChannelFrom(Position(apc) + 1) ELSE "none"
       IN  /\ apc' = next
           /\ attempts' = IF next = "none" THEN attempts
                          ELSE [attempts EXCEPT ![next] = @ + 1]
           /\ sendDone' = (next = "none")
  /\ UNCHANGED <<mitigationEnabled, channels, tpc, threat, alertCalls,
                 mitigationCalls, pipeVars>>
  /\ UNCHANGED <<loopVars, hiveVars, localVars, enrichVars, restartVars>>

\* sendAlert has returned: handleThreat goes on to the mitigation branch,
\* executeMitigation to its end
AlertResumes ==
  /\ tpc \in {"alert", "mitigationAlert"}
  /\ sendDone
  /\ IF tpc = "alert"
     THEN MitigationBranch(threat, threatHistory)
     ELSE /\ tpc' = "done"
          /\ UNCHANGED <<threat, apc, attempts, sendDone, alertCalls,
                         mitigationCalls, steps, threatHistory>>
  /\ UNCHANGED <<mitigationEnabled, channels, threatsDetected, emitted,
                 txSerial, firedFor>>
  /\ UNCHANGED <<loopVars, hiveVars, localVars, enrichVars, restartVars>>

\* EnhancedSeiThreatDetector.handleThreat with the emit inside the branch of
\* the alerts that were sent out
HandleThreatReturnsSentOnly ==
  /\ tpc = "done"
  /\ emitted' = IF alertCalls > 0 THEN Append(emitted, threat) ELSE emitted
  /\ tpc' = "idle"
  /\ threat' = NoThreat
  /\ apc' = "none"
  /\ attempts' = NoAttempts
  /\ sendDone' = FALSE
  /\ alertCalls' = 0
  /\ mitigationCalls' = 0
  /\ steps' = <<>>
  /\ UNCHANGED <<mitigationEnabled, channels, threatHistory, threatsDetected,
                 txSerial, firedFor>>
  /\ UNCHANGED <<loopVars, hiveVars, localVars, enrichVars, restartVars>>

\* ThreatProcessor.handleThreat has returned:
\* EnhancedSeiThreatDetector.handleThreat emits threat_detected with the
\* alert and returns to the for loop
HandleThreatReturns ==
  /\ tpc = "done"
  /\ emitted' = Append(emitted, threat)
  /\ tpc' = "idle"
  /\ threat' = NoThreat
  /\ apc' = "none"
  /\ attempts' = NoAttempts
  /\ sendDone' = FALSE
  /\ alertCalls' = 0
  /\ mitigationCalls' = 0
  /\ steps' = <<>>
  /\ UNCHANGED <<mitigationEnabled, channels, threatHistory, threatsDetected,
                 txSerial, firedFor>>
  /\ UNCHANGED <<loopVars, hiveVars, localVars, enrichVars, restartVars>>

NextThreat ==
  \/ HandleThreat
  \/ DeliverySettles
  \/ AlertResumes
  \/ HandleThreatReturns

(***************************************************************************)
(* LocalThreatDetector.                                                    *)
(***************************************************************************)
Addresses == {"f", "g", "c"}

\* tx.to of a contract creation
NoAddress == "none"

\* tx.from + '-' + tx.to
PairKey(tx) == <<tx.from, tx.to>>

PairKeys == Addresses \X (Addresses \cup {NoAddress})

\* a RealTransaction: value in whole SEI, gas price in gwei, inputLen the
\* length of tx.input, which is 2 exactly for the empty payload '0x'
Tx(from, to, value, gasPrice, inputLen) ==
  [from |-> from, to |-> to, value |-> value, gasPrice |-> gasPrice,
   inputLen |-> inputLen]

NoLocalTx == Tx(NoAddress, NoAddress, 0, 0, 0)

LocalInit ==
  /\ recentTransactions = [k \in PairKeys |-> <<>>]
  /\ contractInteractions = [a \in Addresses |-> 0]
  /\ ltx = NoLocalTx
  /\ threats = <<>>
  /\ directed = [a \in Addresses |-> 0]

\* a ThreatAlert of the heuristics: confidence in hundredths
Alert(type, severity, confidence, pattern, contractAddress) ==
  [type |-> type, severity |-> severity, confidence |-> confidence,
   pattern |-> pattern, contractAddress |-> contractAddress,
   mitigated |-> FALSE]

\* tx.to || ''
ContractAddress(tx) == IF tx.to = NoAddress THEN "" ELSE tx.to

Min(a, b) == IF a <= b THEN a ELSE b

RECURSIVE SumGas(_)
SumGas(list) ==
  IF list = <<>> THEN 0 ELSE Head(list).gasPrice + SumGas(Tail(list))

\* trackTransaction with pop() for shift(): the newest entry is dropped
TrackedDropNewest(windows, tx) ==
  LET pushed == Append(windows[PairKey(tx)], tx)
  IN  [windows EXCEPT ![PairKey(tx)] =
         IF Len(pushed) > windowCap THEN windows[PairKey(tx)] ELSE pushed]

\* trackTransaction: the window of the pair after the push and the shift
Tracked(windows, tx) ==
  LET pushed == Append(windows[PairKey(tx)], tx)
  IN  [windows EXCEPT ![PairKey(tx)] =
         IF Len(pushed) > windowCap THEN Tail(pushed) ELSE pushed]

\* tx.to && tx.input !== '0x'
CountsAsInteraction(tx) == tx.to # NoAddress /\ tx.inputLen # 2

\* trackTransaction: the counters after the bookkeeping
Counted(counters, tx) ==
  IF CountsAsInteraction(tx)
  THEN [counters EXCEPT ![tx.to] = @ + 1]
  ELSE counters

\* detectGasAnomalies with `>=` for `>` in the severity
DetectGasAnomaliesAtLeast(tx) ==
  IF tx.gasPrice > gasAnomalyThreshold
  THEN << Alert("suspicious_pattern",
                IF tx.gasPrice >= gasAnomalyThreshold * 2 THEN "high" ELSE "medium",
                Min(90, (tx.gasPrice * 30) \div gasAnomalyThreshold),
                "extremely_high_gas_price", ContractAddress(tx)) >>
  ELSE <<>>

\* detectGasAnomalies with 'critical' for 'high'
DetectGasAnomaliesCritical(tx) ==
  IF tx.gasPrice > gasAnomalyThreshold
  THEN << Alert("suspicious_pattern",
                IF tx.gasPrice > gasAnomalyThreshold * 2 THEN "critical" ELSE "medium",
                Min(90, (tx.gasPrice * 30) \div gasAnomalyThreshold),
                "extremely_high_gas_price", ContractAddress(tx)) >>
  ELSE <<>>

\* detectGasAnomalies; the confidence min(0.9, gasPrice / threshold * 0.3) is
\* kept in whole hundredths
DetectGasAnomalies(tx) ==
  IF tx.gasPrice > gasAnomalyThreshold
  THEN << Alert("suspicious_pattern",
                IF tx.gasPrice > gasAnomalyThreshold * 2 THEN "high" ELSE "medium",
                Min(90, (tx.gasPrice * 30) \div gasAnomalyThreshold),
                "extremely_high_gas_price", ContractAddress(tx)) >>
  ELSE <<>>

\* detectLargeValueTransfers with `>=` for `>` in the condition
DetectLargeValueTransfersAtLeast(tx) ==
  IF tx.value >= flashLoanMinValue
  THEN << Alert("suspicious_pattern",
                IF tx.value > flashLoanMinValue * 10 THEN "high" ELSE "medium",
                60, "large_value_transfer", ContractAddress(tx)) >>
  ELSE <<>>

\* detectLargeValueTransfers
DetectLargeValueTransfers(tx) ==
  IF tx.value > flashLoanMinValue
  THEN << Alert("suspicious_pattern",
                IF tx.value > flashLoanMinValue * 10 THEN "high" ELSE "medium",
                60, "large_value_transfer", ContractAddress(tx)) >>
  ELSE <<>>

\* detectMEVActivity with the average taken over the entries before tx
DetectMEVActivityPriorAverage(windows, tx) ==
  LET recentTxs == windows[PairKey(tx)]
  IN  IF /\ 2 * tx.gasPrice > gasAnomalyThreshold
         /\ tx.inputLen > mevInputLength
         /\ Len(recentTxs) > mevWindowLength
         /\ tx.gasPrice * (Len(recentTxs) - 1) > 3 * (SumGas(recentTxs) - tx.gasPrice)
      THEN << Alert("mev_attack", "medium", 70, "potential_mev_activity",
                    ContractAddress(tx)) >>
      ELSE <<>>

\* detectMEVActivity on the windows as trackTransaction left them:
\* gasPrice > threshold * 0.5 is 2 * gasPrice > threshold, and
\* gasPrice > avgGasPrice * 3 is gasPrice * length > 3 * sum
DetectMEVActivity(windows, tx) ==
  LET recentTxs == windows[PairKey(tx)]
  IN  IF /\ 2 * tx.gasPrice > gasAnomalyThreshold
         /\ tx.inputLen > mevInputLength
         /\ Len(recentTxs) > mevWindowLength
         /\ tx.gasPrice * Len(recentTxs) > 3 * SumGas(recentTxs)
      THEN << Alert("mev_attack", "medium", 70, "potential_mev_activity",
                    ContractAddress(tx)) >>
      ELSE <<>>

\* detectSuspiciousPatterns with `tx.to` for `!tx.to`
DetectSuspiciousPatternsForRecipient(tx) ==
  IF tx.to # NoAddress /\ tx.inputLen > creationInputLength
  THEN << Alert("suspicious_pattern", "low", 40, "large_contract_creation", "") >>
  ELSE <<>>

\* detectSuspiciousPatterns
DetectSuspiciousPatterns(tx) ==
  IF tx.to = NoAddress /\ tx.inputLen > creationInputLength
  THEN << Alert("suspicious_pattern", "low", 40, "large_contract_creation", "") >>
  ELSE <<>>

\* detectContractBehavior with `>=` for `>`
DetectContractBehaviorAtLeast(counters, tx) ==
  IF tx.to # NoAddress /\ counters[tx.to] >= frequencyThreshold
  THEN << Alert("suspicious_pattern", "low", 50, "high_frequency_interactions",
                tx.to) >>
  ELSE <<>>

\* detectContractBehavior on the counters as trackTransaction left them
DetectContractBehavior(counters, tx) ==
  IF tx.to # NoAddress /\ counters[tx.to] > frequencyThreshold
  THEN << Alert("suspicious_pattern", "low", 50, "high_frequency_interactions",
                tx.to) >>
  ELSE <<>>

\* the alerts detectThreats(tx) returns, in the order of its five pushes
LocalThreats(windows, counters, tx) ==
  DetectGasAnomalies(tx)
    \o DetectLargeValueTransfers(tx)
    \o DetectMEVActivity(windows, tx)
    \o DetectSuspiciousPatterns(tx)
    \o DetectContractBehavior(counters, tx)

\* detectThreats with trackTransaction called twice
DetectThreatsOfTrackedTwice(tx) ==
  /\ recentTransactions' = Tracked(Tracked(recentTransactions, tx), tx)
  /\ contractInteractions' = Counted(Counted(contractInteractions, tx), tx)
  /\ directed' = IF tx.to # NoAddress /\ tx.inputLen > 2
                 THEN [directed EXCEPT ![tx.to] = @ + 1]
                 ELSE directed
  /\ ltx' = tx
  /\ threats' = LocalThreats(recentTransactions', contractInteractions', tx)

\* detectThreats(tx): the bookkeeping first, then the five detectors
DetectThreatsOf(tx) ==
  /\ recentTransactions' = Tracked(recentTransactions, tx)
  /\ contractInteractions' = Counted(contractInteractions, tx)
  /\ directed' = IF tx.to # NoAddress /\ tx.inputLen > 2
                 THEN [directed EXCEPT ![tx.to] = @ + 1]
                 ELSE directed
  /\ ltx' = tx
  /\ threats' = LocalThreats(recentTransactions', contractInteractions', tx)

RECURSIVE TotalTracked(_, _)
TotalTracked(windows, keys) ==
  IF keys = {} THEN 0
  ELSE LET k == CHOOSE x \in keys : TRUE
       IN  Len(windows[k]) + TotalTracked(windows, keys \ {k})

\* transactions on and around every threshold of the heuristics
LocalTxs ==
  { Tx("f", "c", 1, 1, 2),
    Tx("f", "c", 1, 60, 11),
    Tx("f", "c", 1, 61, 11),
    Tx("f", "c", 1, 61, 10),
    Tx("g", "c", 1, 61, 11),
    Tx("f", "c", 1, 120, 2),
    Tx("f", "c", 1, 121, 2),
    Tx("f", "c", 1, 240, 2),
    Tx("f", "c", 1, 241, 2),
    Tx("f", "c", 30, 1, 2),
    Tx("f", "c", 31, 1, 2),
    Tx("f", "c", 300, 1, 2),
    Tx("f", "c", 301, 1, 2),
    Tx("f", "c", 31, 121, 11),
    Tx("f", "c", 1, 1, 1001),
    Tx("f", NoAddress, 1, 1, 1000),
    Tx("f", NoAddress, 1, 1, 1001),
    Tx("f", NoAddress, 1, 100, 1001) }

\* detectThreats for a transaction of LocalTxs
DetectThreats ==
  /\ TotalTracked(recentTransactions, PairKeys) < MaxTracked
  /\ \E tx \in LocalTxs : DetectThreatsOf(tx)
  /\ UNCHANGED <<loopVars, hiveVars, threatVars, enrichVars, restartVars>>

\* a burst on one recipient: two kinds of payload from one sender, which the
\* gas price tells apart, and one from another sender
BurstTxs ==
  { Tx("f", "c", 1, 1, 10),
    Tx("f", "c", 1, 2, 10),
    Tx("g", "c", 1, 1, 10) }

\* detectThreats for a transaction of a burst
DetectThreatsBurst ==
  /\ contractInteractions["c"] < MaxBurst
  /\ \E tx \in BurstTxs : DetectThreatsOf(tx)
  /\ UNCHANGED <<loopVars, hiveVars, threatVars, enrichVars, restartVars>>

\* traffic between two addresses in both directions: two kinds of payload
\* one way at a low gas price, one the other way at a high one
PairTxs ==
  { Tx("f", "g", 1, 1, 11),
    Tx("f", "g", 1, 2, 11),
    Tx("g", "f", 1, 100, 11) }

\* detectThreats for a transaction of the two-way traffic
DetectThreatsPair ==
  /\ contractInteractions["f"] + contractInteractions["g"] < MaxBurst
  /\ \E tx \in PairTxs : DetectThreatsOf(tx)
  /\ UNCHANGED <<loopVars, hiveVars, threatVars, enrichVars, restartVars>>

\* long traffic on one recipient: a payload, an empty payload from another
\* sender, and a contract creation
FrequentTxs ==
  { Tx("f", "c", 1, 1, 10),
    Tx("g", "c", 1, 1, 2),
    Tx("f", NoAddress, 1, 1, 10) }

\* detectThreats for a transaction of the long traffic
DetectThreatsFrequent ==
  /\ contractInteractions["c"] < MaxInteractions
  /\ \E tx \in FrequentTxs : DetectThreatsOf(tx)
  /\ UNCHANGED <<loopVars, hiveVars, threatVars, enrichVars, restartVars>>

(***************************************************************************)
(* ThreatProcessor.analyzeThreatPatterns.                                  *)
(***************************************************************************)
\* the transactions handed to analyzeThreatPatterns: one the Hive client
\* holds eligible (gas price above the threshold), one it does not
AnalysisTxs ==
  { Tx("f", "c", 1, 121, 2),
    Tx("g", "c", 1, 1, 2) }

\* what analyzeTransaction reads of a transaction
HiveView(tx) ==
  [value |-> tx.value, gasPrice |-> tx.gasPrice, inputLen |-> tx.inputLen]

(***************************************************************************)
(* HiveIntelligenceService.parseSearchResponse and                         *)
(* ThreatProcessor.processHiveThreats. Risks and confidences are whole     *)
(* hundredths.                                                             *)
(***************************************************************************)
\* the phrases the parser looks for, and four words that hold one of them
Phrases ==
  { "rug pull", "exit scam", "flash loan", "arbitrage", "mev", "front-running",
    "sandwich",
    "high risk", "critical", "medium risk", "moderate", "moderate risk",
    "low risk", "minimal", "minimal risk", "suspicious", "concerning",
    "no risk", "safe", "unsafe", "dangerous",
    "confident", "certain", "uncertain", "likely", "unlikely", "probable",
    "possible", "might", "unclear" }

\* String.prototype.includes between two phrases: p holds k
Holds(p, k) ==
  \/ p = k
  \/ <<p, k>> \in { <<"moderate risk", "moderate">>, <<"minimal risk", "minimal">>,
                    <<"unsafe", "safe">>, <<"uncertain", "certain">>,
                    <<"unlikely", "likely">> }

RECURSIVE SubsetsUpTo(_, _)
SubsetsUpTo(S, n) ==
  IF n = 0 THEN {{}}
  ELSE LET smaller == SubsetsUpTo(S, n - 1)
       IN  smaller \cup {P \cup {x} : P \in smaller, x \in S}

\* a response text: the phrases it holds, and whether it is written in
\* capitals
Texts == [phrases : SubsetsUpTo(Phrases, MaxPhrases), capitals : BOOLEAN]

\* searchData without a `response`, or with an empty one
NoResponse == [phrases |-> {}, capitals |-> FALSE, present |-> FALSE]

\* searchData.response of an answer that carries a text
Answered == { [phrases |-> t.phrases, capitals |-> t.capitals, present |-> TRUE] :
              t \in Texts }

Responses == Answered \cup {NoResponse}

\* String.prototype.toLowerCase
ToLowerCase(text) == [text EXCEPT !.capitals = FALSE]

\* text.includes(k): the search is case-sensitive and k is in small letters
Includes(text, k) ==
  /\ ~text.capitals
  /\ \E p \in text.phrases : Holds(p, k)

\* extractRiskScore
ExtractRiskScore(text, threatType) ==
  IF Includes(text, "high risk") \/ Includes(text, "critical") THEN 90
  ELSE IF Includes(text, "medium risk") \/ Includes(text, "moderate") THEN 60
  ELSE IF Includes(text, "low risk") \/ Includes(text, "minimal") THEN 30
  ELSE IF Includes(text, "suspicious") \/ Includes(text, "concerning") THEN 70
  ELSE IF Includes(text, "no risk") \/ Includes(text, "safe") THEN 10
  ELSE IF Includes(text, threatType) THEN 50 ELSE 0

\* extractOverallRisk with 0.9 for 0.8
ExtractOverallRiskHigher(text) ==
  IF Includes(text, "high risk") \/ Includes(text, "dangerous") THEN 90
  ELSE IF Includes(text, "medium risk") \/ Includes(text, "moderate risk") THEN 50
  ELSE IF Includes(text, "low risk") \/ Includes(text, "minimal risk") THEN 20
  ELSE 30

\* extractOverallRisk
ExtractOverallRisk(text) ==
  IF Includes(text, "high risk") \/ Includes(text, "dangerous") THEN 80
  ELSE IF Includes(text, "medium risk") \/ Includes(text, "moderate risk") THEN 50
  ELSE IF Includes(text, "low risk") \/ Includes(text, "minimal risk") THEN 20
  ELSE 30

\* extractConfidence
ExtractConfidence(text) ==
  IF Includes(text, "confident") \/ Includes(text, "certain") THEN 90
  ELSE IF Includes(text, "likely") \/ Includes(text, "probable") THEN 70
  ELSE IF Includes(text, "possible") \/ Includes(text, "might") THEN 50
  ELSE IF Includes(text, "uncertain") \/ Includes(text, "unclear") THEN 30
  ELSE 60

\* the risk of a category the analysis does not carry
Absent == -1

\* parseSearchResponse returned null, or has not run
NoAnalysis ==
  [rugPull |-> Absent, flashLoan |-> Absent, mev |-> Absent, overallRisk |-> 0,
   confidence |-> 0, parsed |-> FALSE]

\* extractRiskScore without the lower-casing of the response
ParseSearchResponseAsWritten(searchData) ==
  IF ~searchData.present THEN NoAnalysis
  ELSE LET text == searchData
       IN  [rugPull |->
              IF Includes(text, "rug pull") \/ Includes(text, "exit scam")
              THEN ExtractRiskScore(text, "rug pull") ELSE Absent,
            flashLoan |->
              IF Includes(text, "flash loan") \/ Includes(text, "arbitrage")
              THEN ExtractRiskScore(text, "flash loan") ELSE Absent,
            mev |->
              IF \/ Includes(text, "mev")
                 \/ Includes(text, "front-running")
                 \/ Includes(text, "sandwich")
              THEN ExtractRiskScore(text, "mev") ELSE Absent,
            overallRisk |-> ExtractOverallRisk(text),
            confidence |-> ExtractConfidence(text),
            parsed |-> TRUE]

\* parseSearchResponse
ParseSearchResponse(searchData) ==
  IF ~searchData.present THEN NoAnalysis
  ELSE LET text == ToLowerCase(searchData)
       IN  [rugPull |->
              IF Includes(text, "rug pull") \/ Includes(text, "exit scam")
              THEN ExtractRiskScore(text, "rug pull") ELSE Absent,
            flashLoan |->
              IF Includes(text, "flash loan") \/ Includes(text, "arbitrage")
              THEN ExtractRiskScore(text, "flash loan") ELSE Absent,
            mev |->
              IF \/ Includes(text, "mev")
                 \/ Includes(text, "front-running")
                 \/ Includes(text, "sandwich")
              THEN ExtractRiskScore(text, "mev") ELSE Absent,
            overallRisk |-> ExtractOverallRisk(text),
            confidence |-> ExtractConfidence(text),
            parsed |-> TRUE]

\* what parseSearchResponse makes of the answers that carry a text
ParsedAnalyses == { ParseSearchResponse(r) : r \in Answered }

\* an alert of processHiveThreats: details.source in the place of a pattern
HiveAlert(type, severity, confidence, tx) ==
  Alert(type, severity, confidence, "hive_intelligence", ContractAddress(tx))

\* the category blocks with the rug-pull threshold for the flash-loan block
CategoryThreatsOneThreshold(tx, a) ==
  (IF a.rugPull # Absent /\ a.rugPull > 50
   THEN << HiveAlert("rug_pull", IF a.rugPull > 80 THEN "critical" ELSE "high",
                     a.rugPull, tx) >>
   ELSE <<>>)
  \o
  (IF a.flashLoan # Absent /\ a.flashLoan > 50
   THEN << HiveAlert("flash_loan_attack",
                     IF a.flashLoan > 80 THEN "critical" ELSE "high",
                     a.flashLoan, tx) >>
   ELSE <<>>)
  \o
  (IF a.mev # Absent /\ a.mev > 60
   THEN << HiveAlert("mev_attack", IF a.mev > 80 THEN "high" ELSE "medium",
                     a.mev, tx) >>
   ELSE <<>>)

\* the three category blocks of processHiveThreats
CategoryThreats(tx, a) ==
  (IF a.rugPull # Absent /\ a.rugPull > 50
   THEN << HiveAlert("rug_pull", IF a.rugPull > 80 THEN "critical" ELSE "high",
                     a.rugPull, tx) >>
   ELSE <<>>)
  \o
  (IF a.flashLoan # Absent /\ a.flashLoan > 60
   THEN << HiveAlert("flash_loan_attack",
                     IF a.flashLoan > 80 THEN "critical" ELSE "high",
                     a.flashLoan, tx) >>
   ELSE <<>>)
  \o
  (IF a.mev # Absent /\ a.mev > 60
   THEN << HiveAlert("mev_attack", IF a.mev > 80 THEN "high" ELSE "medium",
                     a.mev, tx) >>
   ELSE <<>>)

\* the last block of processHiveThreats without `threats.length === 0`
GeneralThreatsAlways(a, found, tx) ==
  IF a.overallRisk > 70
  THEN << HiveAlert("suspicious_pattern",
                    IF a.overallRisk > 80 THEN "high" ELSE "medium",
                    IF a.confidence = 0 THEN 60 ELSE a.confidence, tx) >>
  ELSE <<>>

\* the last block of processHiveThreats, `found` being the alerts pushed so
\* far; hiveAnalysis.confidence || 0.6
GeneralThreats(a, found, tx) ==
  IF a.overallRisk > 70 /\ Len(found) = 0
  THEN << HiveAlert("suspicious_pattern",
                    IF a.overallRisk > 80 THEN "high" ELSE "medium",
                    IF a.confidence = 0 THEN 60 ELSE a.confidence, tx) >>
  ELSE <<>>

\* analyzeThreatPatterns' `hiveAnalysis && hiveAnalysis.threats`, then
\* processHiveThreats
ProcessHiveThreats(tx, a) ==
  IF ~a.parsed THEN <<>>
  ELSE LET found == CategoryThreats(tx, a)
       IN  found \o GeneralThreats(a, found, tx)

\* the risks a category may carry, on and around the thresholds
Risks == {Absent, 0, 50, 60, 70, 80, 90}

\* the analyses handed to processHiveThreats
HiveAnalyses ==
  [rugPull : Risks, flashLoan : Risks, mev : Risks,
   overallRisk : {20, 30, 50, 70, 80, 90}, confidence : {30, 50, 60, 70, 90},
   parsed : {TRUE}]

EnrichInit ==
  /\ response = NoResponse
  /\ analysis = NoAnalysis
  /\ hiveThreats = <<>>
  /\ epc = "idle"

\* parseSearchResponse(response.data, tx)
ParseResponse ==
  /\ epc = "received"
  /\ analysis' = ParseSearchResponse(response)
  /\ epc' = "parsed"
  /\ UNCHANGED <<response, hiveThreats>>
  /\ UNCHANGED <<loopVars, hiveVars, threatVars, localVars, restartVars>>

\* processHiveThreats(tx, hiveAnalysis) on the analysis at hand
Aggregate ==
  /\ epc = "parsed"
  /\ \E tx \in AnalysisTxs :
       /\ ltx' = tx
       /\ hiveThreats' = ProcessHiveThreats(tx, analysis)
  /\ epc' = "done"
  /\ UNCHANGED <<response, analysis>>
  /\ UNCHANGED <<recentTransactions, contractInteractions, threats, directed>>
  /\ UNCHANGED <<loopVars, hiveVars, threatVars, restartVars>>

\* the alerts processHiveThreats may draw from an analysis: what it makes of
\* the parsed responses
HiveThreatLists(tx) ==
  { ProcessHiveThreats(tx, a) : a \in ParsedAnalyses }

\* analyzeThreatPatterns(tx) up to its first suspension: detectThreats, the
\* push of its alerts, then analyzeTransaction up to its first await
AnalyzeThreatPatterns ==
  /\ hpc = "idle"
  /\ Len(sent) + retryCount <= MaxSent
  /\ \E tx \in AnalysisTxs :
       /\ DetectThreatsOf(tx)
       /\ AnalyzeTransactionOf(HiveView(tx))
  /\ UNCHANGED <<loopVars, threatVars, enrichVars, restartVars>>

\* transactions for analyzeThreatPatterns with heuristic alerts on either
\* side of the eligibility test: one the Hive client holds eligible (gas
\* price above the threshold: a gas alert), two it does not, of which the
\* second raises the MEV alert after enough of the first
DegradeTxs ==
  { Tx("f", "c", 1, 121, 2),
    Tx("g", "c", 1, 1, 11),
    Tx("g", "c", 1, 61, 11) }

\* analyzeThreatPatterns for a transaction of DegradeTxs
AnalyzeThreatPatternsMixed ==
  /\ hpc = "idle"
  /\ Len(sent) + retryCount <= MaxSent
  /\ \E tx \in DegradeTxs :
       /\ tx.from = "g" => Len(recentTransactions[PairKey(tx)]) < MaxTracked
       /\ DetectThreatsOf(tx)
       /\ AnalyzeTransactionOf(HiveView(tx))
  /\ UNCHANGED <<loopVars, threatVars, enrichVars, restartVars>>

\* AnalysisReturns with the list emptied when there is no analysis
AnalysisReturnsHiveOnly ==
  /\ hpc = "done"
  /\ IF hres = "analysis"
     THEN \E extra \in HiveThreatLists(ltx) : threats' = threats \o extra
     ELSE threats' = <<>>
  /\ hpc' = "idle"
  /\ htx' = NoTx
  /\ attempt' = 0
  /\ hres' = "none"
  /\ txCalls' = 0
  /\ waits' = <<>>
  /\ limiterAsked' = FALSE
  /\ UNCHANGED <<hiveOn, now, requestTimestamps, requestCount, sent>>
  /\ UNCHANGED <<recentTransactions, contractInteractions, ltx, directed>>
  /\ UNCHANGED <<loopVars, threatVars, enrichVars, restartVars>>

\* analyzeTransaction has returned: the alerts of an analysis are pushed
\* after the local ones and the list is returned
AnalysisReturns ==
  /\ hpc = "done"
  /\ IF hres = "analysis"
     THEN \E extra \in HiveThreatLists(ltx) : threats' = threats \o extra
     ELSE threats' = threats
  /\ hpc' = "idle"
  /\ htx' = NoTx
  /\ attempt' = 0
  /\ hres' = "none"
  /\ txCalls' = 0
  /\ waits' = <<>>
  /\ limiterAsked' = FALSE
  /\ UNCHANGED <<hiveOn, now, requestTimestamps, requestCount, sent>>
  /\ UNCHANGED <<recentTransactions, contractInteractions, ltx, directed>>
  /\ UNCHANGED <<loopVars, threatVars, enrichVars, restartVars>>

\* the monitoring loop, with the services at rest
Init ==
  /\ LoopInit /\ RestartInit /\ HiveInit /\ ThreatInit /\ LocalInit /\ EnrichInit
  /\ hiveOn /\ mitigationEnabled /\ channels = {}

Spec == Init /\ [][Next]_vars

\* HiveIntelligenceService driven by arbitrary calls of analyzeTransaction
InitHive ==
  /\ LoopInit /\ RestartInit /\ HiveInit /\ ThreatInit /\ LocalInit /\ EnrichInit
  /\ mitigationEnabled /\ channels = {}

SpecHive == InitHive /\ [][NextHive]_vars

\* ThreatProcessor driven by arbitrary alerts
InitThreat ==
  /\ LoopInit /\ RestartInit /\ HiveInit /\ ThreatInit /\ LocalInit /\ EnrichInit
  /\ hiveOn

SpecThreat == InitThreat /\ [][NextThreat]_vars

\* LocalThreatDetector driven by transactions around the thresholds
NextLocal == DetectThreats

SpecLocal == Init /\ [][NextLocal]_vars

\* LocalThreatDetector driven by a burst on one recipient
NextWindow == DetectThreatsBurst

SpecWindow == Init /\ [][NextWindow]_vars

\* LocalThreatDetector driven by long traffic on one recipient
NextFrequency == DetectThreatsFrequent

SpecFrequency == Init /\ [][NextFrequency]_vars

\* LocalThreatDetector driven by traffic between two addresses in both directions
NextPair == DetectThreatsPair

SpecPair == Init /\ [][NextPair]_vars

\* analyzeThreatPatterns, one transaction after the other, within one window
\* of the limiter
NextAnalysis ==
  \/ AnalyzeThreatPatterns
  \/ CallSettles
  \/ RetryCall
  \/ AnalysisReturns

SpecAnalysis == Init /\ [][NextAnalysis]_vars

\* analyzeThreatPatterns with enrichment on or off, on transactions with
\* heuristic alerts on either side of the eligibility test
NextDegrade ==
  \/ AnalyzeThreatPatternsMixed
  \/ CallSettles
  \/ RetryCall
  \/ AnalysisReturns

SpecDegrade == InitHive /\ [][NextDegrade]_vars

\* the detector started and stopped any number of times
SpecRestart == Init /\ [][NextRestart]_vars

\* what the event loop and the timeouts of the RPC client guarantee: a timer
\* that is armed fires; getLatestBlock (timeout 10 s) settles and, failing or
\* lagging any number of times, answers the head of the chain in the end;
\* getBlock (timeout 10 s) settles. Nothing is assumed of processTransaction,
\* whose alert deliveries are awaited without a timeout.
LoopFairness ==
  /\ WF_vars(MonitorLoop)
  /\ SF_vars(GetLatestBlockOk /\ latestBlock' = chainHead)
  /\ WF_vars(GetBlockFail \/ GetBlockEmpty \/ GetBlockOk)

\* the monitoring loop under these guarantees
SpecLive == Init /\ [][Next]_vars /\ LoopFairness

\* the detector after long traffic from f to c: the window of the pair full
\* of cheap payload transactions, 100 interactions counted for c
BusyWindows ==
  [k \in PairKeys |->
     IF k = <<"f", "c">> THEN [i \in 1..windowCap |-> Tx("f", "c", 1, 1, 11)]
     ELSE <<>>]

BusyCounters == [a \in Addresses |-> IF a = "c" THEN frequencyThreshold ELSE 0]

\* transactions that take each heuristic to its highest severity: gas price
\* and value far above their thresholds, a large contract creation, and a
\* payload at three times the average gas price of a busy pair
SeverityTxs ==
  { Tx("f", "c", 301, 241, 2),
    Tx("f", NoAddress, 1, 1, 1001),
    Tx("f", "c", 1, 61, 11) }

\* analyzeThreatPatterns for a transaction of SeverityTxs up to the answer of
\* the service: the heuristics, then the call for an eligible transaction
DetectAndAsk ==
  /\ epc = "idle"
  /\ \E tx \in SeverityTxs :
       /\ DetectThreatsOf(tx)
       /\ epc' = IF Eligible(HiveView(tx)) THEN "received" ELSE "done"
  /\ UNCHANGED <<response, analysis, hiveThreats>>
  /\ UNCHANGED <<loopVars, hiveVars, threatVars, restartVars>>

\* processHiveThreats(transaction, hiveAnalysis) for the transaction in hand
AggregateForTx ==
  /\ epc = "parsed"
  /\ hiveThreats' = ProcessHiveThreats(ltx, analysis)
  /\ epc' = "done"
  /\ UNCHANGED <<response, analysis>>
  /\ UNCHANGED <<loopVars, hiveVars, threatVars, localVars, restartVars>>

\* heuristics and enrichment of one transaction, for a fresh or a busy
\* detector and any answer of the service
InitSeverity ==
  /\ LoopInit /\ RestartInit /\ HiveInit /\ ThreatInit
  /\ hiveOn /\ channels = {}
  /\ \/ LocalInit
     \/ /\ recentTransactions = BusyWindows
        /\ contractInteractions = BusyCounters
        /\ directed = BusyCounters
        /\ ltx = NoLocalTx
        /\ threats = <<>>
  /\ response \in Responses
  /\ analysis = NoAnalysis
  /\ hiveThreats = <<>>
  /\ epc = "idle"

NextSeverity ==
  \/ DetectAndAsk
  \/ ParseResponse
  \/ AggregateForTx

SpecSeverity == InitSeverity /\ [][NextSeverity]_vars

\* processHiveThreats applied to an analysis on or around its thresholds
InitAggregate ==
  /\ LoopInit /\ RestartInit /\ HiveInit /\ ThreatInit /\ LocalInit
  /\ hiveOn /\ mitigationEnabled /\ channels = {}
  /\ response = NoResponse
  /\ analysis \in HiveAnalyses
  /\ hiveThreats = <<>>
  /\ epc = "parsed"

NextAggregate == Aggregate

SpecAggregate == InitAggregate /\ [][NextAggregate]_vars

\* parseSearchResponse and processHiveThreats applied to a response
InitParse ==
  /\ LoopInit /\ RestartInit /\ HiveInit /\ ThreatInit /\ LocalInit
  /\ hiveOn /\ mitigationEnabled /\ channels = {}
  /\ response \in Responses
  /\ analysis = NoAnalysis
  /\ hiveThreats = <<>>
  /\ epc = "received"

NextParse ==
  \/ ParseResponse
  \/ Aggregate

SpecParse == InitParse /\ [][NextParse]_vars

(***************************************************************************)
(* Properties of the monitoring loop.                                      *)
(***************************************************************************)
Last(s) == s[Len(s)]

StrictlyIncreasing(s) == \A i, j \in 1..Len(s) : i < j => s[i] < s[j]

\* <<a + 1, ..., b>>
RangeSeq(a, b) == [k \in 1..(b - a) |-> a + k]

\* positions of monitorLoop inside a pass
PassStates == {"getLatest", "getBlock", "inTx"}

\* positions inside the for loop over the block range
RangeStates == {"getBlock", "inTx"}

\* the indices i <= n of list whose entry carries a hash, ascending
RECURSIVE HashedUpTo(_, _)
HashedUpTo(list, n) ==
  IF n = 0 THEN <<>>
  ELSE IF list[n] = "tx" THEN Append(HashedUpTo(list, n - 1), n)
  ELSE HashedUpTo(list, n - 1)

\* leaving the transaction loop of a block: every entry with a hash was processed
AllTxsProcessed ==
  (pc = "inTx" /\ pc' # "inTx") => HashedUpTo(txs, Len(txs)) = HashedUpTo(txs, txIdx)

\* C1: blocks are analysed in strictly increasing block-number order, within
\* and across passes: analyzeBlock(m) is called only after every earlier call
\* has returned, at most one call is open (the latest), and a transaction is
\* processed only inside the open call of its own block.
C1_BlocksInIncreasingOrder ==
  /\ StrictlyIncreasing(analysed)
  /\ Cardinality(openBlocks) <= 1
  /\ analysed = <<>> => openBlocks = {}
  /\ analysed # <<>> => openBlocks \subseteq {Last(analysed)}
  /\ \A t \in openTxs : t[1] \in openBlocks
  /\ \A k \in 1..Len(txSeen) : analysed # <<>> /\ txSeen[k][1] = Last(analysed)

\* three blocks analysed over more than one pass, a transaction of the third in progress
C1_Witness ==
  /\ Len(analysed) >= 3
  /\ passFrom > startHead
  /\ pc = "inTx"

C2_State ==
  /\ Cardinality(openTxs) <= 1
  /\ pc # "inTx" => openTxs = {}
  /\ pc = "inTx" =>
       /\ txs[txIdx] = "tx"
       /\ openTxs = {<<blockNum, txIdx>>}
       /\ LET hashed == HashedUpTo(txs, txIdx)
          IN txSeen = [k \in 1..Len(hashed) |-> <<blockNum, hashed[k]>>]

\* C2: within one block the transactions are handed to processTransaction in
\* the order of block.transactions (every entry with a hash, none twice, none
\* skipped), and processTransaction of one has returned before the next is
\* handed over.
C2_TransactionsInListOrder ==
  /\ []C2_State
  /\ [][AllTxsProcessed]_vars

\* the second transaction of a block is in progress, the first has returned
C2_Witness ==
  /\ pc = "inTx"
  /\ Len(txSeen) >= 2
  /\ openTxs = {<<blockNum, txIdx>>}

\* an RPC call of the iteration that ended last has failed: its
\* getLatestBlock, or the getBlock of a block of its range
PassRaisedRpcError ==
  \/ raisedBy = "getLatestBlock"
  \/ \E n \in failedBlocks : passFrom < n /\ n <= latestBlock

\* C6: an error during a pass never ends the loop. While the flag is set the
\* loop has not ended; an iteration that is over has armed exactly one timer,
\* the 2000 ms one if the pass raised an error (an RPC failure) and the
\* adaptive one otherwise.
C6_BackoffAfterFailedPass ==
  /\ pc = "stopped" => ~monitoringActive
  /\ timers <= 1
  /\ pc = "timer" <=> timers = 1
  /\ pc = "timer" =>
       IF PassRaisedRpcError
       THEN timerKind = "backoff" /\ timerDelay = 2000
       ELSE timerKind = "adaptive" /\ timerDelay # 2000

\* C7: a getBlock failure for block n surfaces to monitorLoop's catch
\* (the 2000 ms branch) and the cursor is not moved to n or past it while
\* block n has not been fetched.
C7_FetchFailureSurfaces ==
  /\ raisedBy = "getBlock" => caughtBy = "monitorLoop"
  /\ \A n \in failedBlocks \ fetchedBlocks : currentBlock < n

\* C8: once stop() has run, a pending timer's iteration returns at once when
\* it fires: no head is fetched, no block analysed, no timer armed, and the
\* loop stays ended.
C8_StoppedTimerIsNoOp ==
  [][/\ (pc = "timer" /\ ~monitoringActive) =>
          /\ pc' \in {"timer", "stopped"}
          /\ pc' = "stopped" => timers' = 0
          /\ timers' <= timers
          /\ UNCHANGED <<currentBlock, latestBlock, blockNum, statVars, orderHist, fetchHist>>
     /\ pc = "stopped" =>
          /\ pc' = "stopped"
          /\ timers' = 0
          /\ UNCHANGED <<currentBlock, latestBlock, blockNum, statVars, orderHist, fetchHist>>
    ]_vars

\* stop() ran while the timer was pending, the timer fired and the iteration returned
C8_Witness ==
  /\ stopPc = "timer"
  /\ idleFire
  /\ pc = "stopped"
  /\ analysed # <<>>

C9_State ==
  (stopPc \in RangeStates /\ pc \in {"timer", "stopped"}) =>
    /\ latestBlock > passFrom
    /\ stopAt \in (passFrom + 1)..latestBlock
    /\ currentBlock = latestBlock
    /\ Len(analysed) >= latestBlock - passFrom
    /\ SubSeq(analysed, Len(analysed) - (latestBlock - passFrom) + 1, Len(analysed))
         = RangeSeq(passFrom, latestBlock)
    /\ blocksProcessed = Len(analysed)
    /\ openBlocks = {}
    /\ openTxs = {}

\* C9: when stop() runs while a pass is inside its block range, the pass
\* still analyses every remaining block of cursor+1 .. head, processes every
\* transaction of each, and sets the cursor to head; only the next timer
\* honours the stop.
C9_StopLetsPassFinish ==
  /\ []C9_State
  /\ [][(~monitoringActive /\ pc \in RangeStates) =>
          /\ pc' \in RangeStates \cup {"timer"}
          /\ AllTxsProcessed
       ]_vars

\* stop() ran during a transaction of block stopAt; later blocks of the range were analysed
C9_Witness ==
  /\ stopPc = "inTx"
  /\ pc = "stopped"
  /\ currentBlock > stopAt
  /\ stopAt > 0

C10_State ==
  started = "yes" =>
    /\ currentBlock >= startHead
    /\ pc \notin RangeStates => analysed = RangeSeq(startHead, currentBlock)
    /\ pc \in RangeStates =>
         /\ currentBlock = passFrom
         /\ blockNum \in (passFrom + 1)..latestBlock
         /\ analysed = RangeSeq(startHead, blockNum)

C10_Step ==
  /\ (started = "no" /\ started' = "yes") =>
        /\ currentBlock' \in Heads(chainHead)
        /\ currentBlock' = startHead'
  /\ started = "yes" =>
        /\ currentBlock' >= currentBlock
        /\ currentBlock' # currentBlock =>
             /\ pc \in RangeStates
             /\ pc' = "timer"
             /\ blockNum = latestBlock
             /\ currentBlock' = latestBlock
  /\ (pc = "getLatest" /\ pc' = "timer" /\ timerKind' = "adaptive") =>
        /\ latestBlock' <= currentBlock
        /\ UNCHANGED <<currentBlock, analysed>>
  /\ (pc = "getLatest" /\ pc' = "getBlock") =>
        /\ latestBlock' > currentBlock
        /\ blockNum' = currentBlock + 1

\* C10: start() sets the cursor to the head it fetched; a pass whose head is
\* past the cursor calls analyzeBlock exactly once for each block of
\* cursor+1 .. head, in order, and sets the cursor to head only after the last
\* call returned; a pass whose head is not past the cursor analyses nothing
\* and leaves the cursor; the cursor never decreases.
C10_CursorFollowsHead ==
  /\ []C10_State
  /\ [][C10_Step]_vars

\* a pass fetched a head behind the cursor after two blocks had been analysed
C10_Witness ==
  /\ pc = "timer"
  /\ timerKind = "adaptive"
  /\ latestBlock < currentBlock
  /\ passFrom = currentBlock
  /\ Len(analysed) >= 2

\* the external calls issued in the minute that ends now
SentInWindow == {i \in DOMAIN sent : sent[i] > now - 60000}

\* C3: whatever the pattern of enrichment calls, at most 18 external
\* intelligence requests go out in any trailing 60-second window.
C3_AtMost18PerWindow == Cardinality(SentInWindow) <= 18

\* C4: once a call of sendAlert has returned, every configured channel has
\* had exactly one delivery attempt in it, whatever the others ended in.
C4_EveryChannelAttempted ==
  sendDone => \A c \in channels : attempts[c] = 1

\* C5: the mitigation hook runs at most once for an alert, only with
\* mitigation enabled on a critical alert of confidence above 0.8 (so never
\* for high, medium or low), and for every such alert by the time the
\* handler is through.
C5_MitigationGate ==
  LET due == /\ mitigationEnabled
             /\ threat.severity = "critical"
             /\ threat.confidence > 80
  IN  /\ mitigationCalls <= 1
      /\ mitigationCalls = 1 => due
      /\ threat.mitigated <=> mitigationCalls = 1
      /\ tpc = "done" /\ due => mitigationCalls = 1

\* a critical alert has been through the handler and the hook ran for it
C5_Witness ==
  /\ tpc = "done"
  /\ threat.severity = "critical"
  /\ mitigationCalls = 1
  /\ alertCalls = 2

\* C11: after a pass that raised no error the delay of the next iteration is
\* max(100, pollingInterval - processingTime): not below 100 ms and, the
\* interval being at least 100 ms, not above the interval.
C11_AdaptiveDelay ==
  (pc = "timer" /\ timerKind = "adaptive") =>
    /\ timerDelay >= 100
    /\ timerDelay >= pollingInterval - processingTime
    /\ timerDelay \in {100, pollingInterval - processingTime}
    /\ pollingInterval >= 100 => timerDelay <= pollingInterval

\* a pass that took longer than the interval has ended: the delay is the floor
C11_Witness ==
  /\ pc = "timer"
  /\ timerKind = "adaptive"
  /\ processingTime > pollingInterval
  /\ timerDelay = 100
  /\ analysed # <<>>

\* the alerts of the last detectThreats that carry pattern p
WithPattern(p) == SelectSeq(threats, LAMBDA a : a.pattern = p)

\* the window the last transaction was tracked in
LastWindow == recentTransactions[<<ltx.from, ltx.to>>]

\* C15: every pair's sliding window holds at most 10 transactions, the most
\* recent ones of the pair in arrival order: a detectThreats call appends its
\* transaction to the window of its pair, evicts exactly the oldest entry
\* when that makes 11, and touches no other window.
C15_WindowIsFifo ==
  /\ [](\A k \in PairKeys : Len(recentTransactions[k]) <= 10)
  /\ [][LET k == <<ltx'.from, ltx'.to>>
            old == recentTransactions[k]
        IN  /\ recentTransactions'[k] =
                 IF Len(old) = 10
                 THEN [i \in 1..10 |-> IF i < 10 THEN old[i + 1] ELSE ltx']
                 ELSE [i \in 1..(Len(old) + 1) |-> IF i <= Len(old) THEN old[i] ELSE ltx']
            /\ \A j \in PairKeys \ {k} : recentTransactions'[j] = recentTransactions[j]
       ]_vars

\* the twelfth transaction of a burst: the window of the pair is full, its
\* oldest entry is a later one than the first of the burst
C15_Witness ==
  /\ contractInteractions["c"] = 12
  /\ recentTransactions[<<"g", "c">>] = <<>>
  /\ Len(recentTransactions[<<"f", "c">>]) = 10
  /\ recentTransactions[<<"f", "c">>][1].gasPrice = 2
  /\ recentTransactions[<<"f", "c">>][10].gasPrice = 1

\* C16: the gas-anomaly detector produces an alert iff the gas price is above
\* gasAnomalyThreshold; the alert is a suspicious_pattern, of severity high
\* iff the gas price is above twice the threshold, else medium.
C16_GasAnomaly ==
  LET found == WithPattern("extremely_high_gas_price")
  IN  ltx # NoLocalTx =>
        /\ Len(found) = (IF ltx.gasPrice > gasAnomalyThreshold THEN 1 ELSE 0)
        /\ \A i \in DOMAIN found :
             /\ found[i].type = "suspicious_pattern"
             /\ found[i].severity = "high" <=> ltx.gasPrice > 2 * gasAnomalyThreshold
             /\ found[i].severity = "medium" <=> ltx.gasPrice <= 2 * gasAnomalyThreshold

\* a gas price of exactly twice the threshold: the alert is medium
C16_Witness ==
  /\ ltx.gasPrice = 2 * gasAnomalyThreshold
  /\ Len(WithPattern("extremely_high_gas_price")) = 1
  /\ WithPattern("extremely_high_gas_price")[1].severity = "medium"

\* C17: the large-value detector produces an alert iff the value is above
\* flashLoanMinValue; the alert has severity high iff the value is above ten
\* times flashLoanMinValue, else medium, and confidence 0.6.
C17_LargeValue ==
  LET found == WithPattern("large_value_transfer")
  IN  ltx # NoLocalTx =>
        /\ Len(found) = (IF ltx.value > flashLoanMinValue THEN 1 ELSE 0)
        /\ \A i \in DOMAIN found :
             /\ found[i].severity = "high" <=> ltx.value > 10 * flashLoanMinValue
             /\ found[i].severity = "medium" <=> ltx.value <= 10 * flashLoanMinValue
             /\ found[i].confidence = 60

\* a value above ten times the threshold: the alert is high
C17_Witness ==
  /\ ltx.value > 10 * flashLoanMinValue
  /\ Len(WithPattern("large_value_transfer")) = 1
  /\ WithPattern("large_value_transfer")[1].severity = "high"

\* C18: the MEV detector fires iff the gas price is above half the
\* gas-anomaly threshold, the input is longer than 10, the window of the pair
\* holds more than 2 entries of earlier transactions, and the gas price is
\* above 3 times the average gas price of the window (as it stands, the
\* transaction included); the alert is mev_attack, medium, confidence 0.7.
C18_MevActivity ==
  LET found == WithPattern("potential_mev_activity")
      due == /\ 2 * ltx.gasPrice > gasAnomalyThreshold
             /\ ltx.inputLen > 10
             /\ Len(LastWindow) - 1 > 2
             /\ ltx.gasPrice * Len(LastWindow) > 3 * SumGas(LastWindow)
  IN  ltx # NoLocalTx =>
        /\ Len(found) = (IF due THEN 1 ELSE 0)
        /\ \A i \in DOMAIN found :
             /\ found[i].type = "mev_attack"
             /\ found[i].severity = "medium"
             /\ found[i].confidence = 70

\* the detector fired on the fourth transaction of a pair
C18_Witness ==
  /\ Len(WithPattern("potential_mev_activity")) = 1
  /\ Len(LastWindow) = 4
  /\ ltx.to = "c"

\* the one alert of detectSuspiciousPatterns
CreationAlert ==
  [type |-> "suspicious_pattern", severity |-> "low", confidence |-> 40,
   pattern |-> "large_contract_creation", contractAddress |-> "",
   mitigated |-> FALSE]

\* a contract creation with an input above 1000, gas price and value at or
\* below their thresholds
QuietCreation ==
  /\ ltx.to = NoAddress
  /\ ltx.from # NoAddress
  /\ ltx.inputLen > 1000
  /\ ltx.gasPrice <= gasAnomalyThreshold
  /\ ltx.value <= flashLoanMinValue

\* C19, as stated: such a contract creation yields exactly one heuristic
\* alert (suspicious_pattern, low, 0.4, empty contract address) and no other
\* detector fires for it, in any state of the windows and counters.
C19_OnlyCreationAlert ==
  QuietCreation => threats = <<CreationAlert>>

\* C19, amended: such a contract creation yields that alert exactly once, and
\* the only other detector that can fire for it is the MEV detector; with a
\* gas price at or below half the gas-anomaly threshold it is the only alert.
C19_CreationAlert ==
  QuietCreation =>
    /\ SelectSeq(threats, LAMBDA a : a.type # "mev_attack") = <<CreationAlert>>
    /\ 2 * ltx.gasPrice <= gasAnomalyThreshold => threats = <<CreationAlert>>

\* a contract creation was analysed and the one alert is all there is
C19_Witness ==
  /\ QuietCreation
  /\ threats = <<CreationAlert>>
  /\ Len(LastWindow) >= 2

\* C20: the high-frequency detector fires iff the transaction has a recipient
\* whose counter, after the bookkeeping of this transaction, is above 100; a
\* counter counts exactly the transactions seen so far that were directed at
\* its address with a payload, and never decreases.
C20_HighFrequency ==
  /\ [](contractInteractions = directed)
  /\ [](ltx # NoLocalTx =>
          Len(WithPattern("high_frequency_interactions")) =
            (IF ltx.to # NoAddress /\ contractInteractions[ltx.to] > 100
             THEN 1 ELSE 0))
  /\ [][\A a \in Addresses : contractInteractions'[a] >= contractInteractions[a]]_vars

\* the 101st payload for one recipient: the detector fires
C20_Witness ==
  /\ contractInteractions["c"] = 101
  /\ ltx.inputLen > 2
  /\ ltx.to = "c"
  /\ Len(WithPattern("high_frequency_interactions")) = 1

\* C12: when the limiter refuses (18 stamps in the window), analyzeTransaction
\* returns null as a normal value: no request is sent, none is retried, no
\* error is raised; the heuristic alerts of the transaction are produced all
\* the same and are what analyzeThreatPatterns returns.
C12_RefusedIsNoResult ==
  /\ [][(/\ hpc = "idle"
         /\ hpc' # "idle"
         /\ hiveOn
         /\ Len(Purged(requestTimestamps, now)) >= 18)
        => /\ hpc' = "done"
           /\ hres' = "null"
           /\ sent' = sent
           /\ txCalls' = 0
           /\ waits' = <<>>
           /\ ltx'.gasPrice > gasAnomalyThreshold =>
                Len(SelectSeq(threats', LAMBDA a : a.pattern = "extremely_high_gas_price")) = 1
       ]_vars
  /\ [][(hpc = "done" /\ txCalls = 0) =>
          /\ hpc' = "idle"
          /\ threats' = threats
          /\ sent' = sent
          /\ requestTimestamps' = requestTimestamps
       ]_vars

\* an eligible transaction was refused by the limiter and its gas alert is
\* in the list about to be returned
C12_Witness ==
  /\ hpc = "done"
  /\ limiterAsked
  /\ Len(requestTimestamps) = 18
  /\ txCalls = 0
  /\ hres = "null"
  /\ ltx.gasPrice > gasAnomalyThreshold
  /\ Len(WithPattern("extremely_high_gas_price")) = 1

\* C13: when the external call fails, the request is attempted at most 2
\* times for one transaction, with a wait of 1000 ms x the number of the
\* failed attempt in between; a failure of the last attempt makes
\* analyzeTransaction return null, nothing is thrown to the caller.
C13_RetryTwiceThenNull ==
  /\ [](/\ attempt <= 2
        /\ txCalls <= 2
        /\ txCalls = attempt
        /\ Len(waits) <= 1
        /\ \A i \in DOMAIN waits : waits[i] = 1000 * i
        /\ hpc \in {"call", "done"} => Len(waits) = (IF attempt = 2 THEN 1 ELSE 0)
        /\ hpc = "done" => hres \in {"null", "analysis"})
  /\ [][(hpc = "call" /\ requestTimestamps' = requestTimestamps) =>
          IF attempt = 2
          THEN hpc' = "done" /\ hres' = "null" /\ waits' = waits
          ELSE hpc' = "wait" /\ waits' = Append(waits, 1000 * attempt)
       ]_vars

\* both attempts were rejected: one wait of 1000 ms, null returned
C13_Witness ==
  /\ hpc = "done"
  /\ txCalls = 2
  /\ waits = <<1000>>
  /\ hres = "null"
  /\ requestTimestamps = <<>>
  /\ sent # <<>>

\* C14, as stated: for each eligible transaction at most one external
\* enrichment call is made.
C14_AtMostOneCall ==
  txCalls <= 1

\* C14, amended: analyzeThreatPatterns calls analyzeTransaction once for its
\* transaction; that call sends no request for a transaction that is not
\* eligible, at most 2 for one that is, and the second only after the first
\* attempt ended in the catch and the retry wait; once a response has been
\* parsed no further request is sent.
C14_OneCallWithRetry ==
  /\ [](/\ hpc # "idle" => htx = HiveView(ltx)
        /\ txCalls <= 2
        /\ (/\ htx.value <= flashLoanMinValue
            /\ htx.gasPrice <= gasAnomalyThreshold
            /\ htx.inputLen <= 100) => txCalls = 0
        /\ txCalls = 2 => waits = <<1000>>)
  /\ [][(hres' = "analysis" /\ hres # "analysis") => hpc' = "done"]_vars
  /\ [][sent' # sent => hres = "none" /\ hres' = "none"]_vars

\* the second request for one transaction is under way
C14_Witness ==
  /\ hpc = "call"
  /\ txCalls = 2
  /\ htx = HiveView(ltx)
  /\ Eligible(htx)
  /\ threats # <<>>

\* the alerts of the last processHiveThreats that carry type t
OfType(t) == SelectSeq(hiveThreats, LAMBDA a : a.type = t)

\* the alerts of the three categories among them
CategoryAlerts ==
  SelectSeq(hiveThreats,
            LAMBDA a : a.type \in {"rug_pull", "flash_loan_attack", "mev_attack"})

\* C21: processHiveThreats emits a rug_pull alert iff the analysis carries a
\* rug-pull risk above 0.5, severity critical iff the risk is above 0.8, else
\* high; a flash_loan_attack alert iff it carries a flash-loan risk above 0.6,
\* with the same severities; a mev_attack alert iff it carries an MEV risk
\* above 0.6, severity high iff the risk is above 0.8, else medium; the
\* confidence of each is the risk of its category.
C21_CategoryAlerts ==
  epc = "done" =>
    /\ Len(OfType("rug_pull")) =
         (IF analysis.rugPull # Absent /\ analysis.rugPull > 50 THEN 1 ELSE 0)
    /\ \A i \in DOMAIN OfType("rug_pull") :
         /\ OfType("rug_pull")[i].severity =
              (IF analysis.rugPull > 80 THEN "critical" ELSE "high")
         /\ OfType("rug_pull")[i].confidence = analysis.rugPull
    /\ Len(OfType("flash_loan_attack")) =
         (IF analysis.flashLoan # Absent /\ analysis.flashLoan > 60 THEN 1 ELSE 0)
    /\ \A i \in DOMAIN OfType("flash_loan_attack") :
         /\ OfType("flash_loan_attack")[i].severity =
              (IF analysis.flashLoan > 80 THEN "critical" ELSE "high")
         /\ OfType("flash_loan_attack")[i].confidence = analysis.flashLoan
    /\ Len(OfType("mev_attack")) =
         (IF analysis.mev # Absent /\ analysis.mev > 60 THEN 1 ELSE 0)
    /\ \A i \in DOMAIN OfType("mev_attack") :
         /\ OfType("mev_attack")[i].severity =
              (IF analysis.mev > 80 THEN "high" ELSE "medium")
         /\ OfType("mev_attack")[i].confidence = analysis.mev

\* risks on the thresholds: rug pull 0.8 is high, flash loan 0.6 is nothing,
\* MEV 0.9 is high
C21_Witness ==
  /\ epc = "done"
  /\ analysis.rugPull = 80
  /\ analysis.flashLoan = 60
  /\ analysis.mev = 90
  /\ Len(hiveThreats) = 2
  /\ hiveThreats[1].type = "rug_pull" /\ hiveThreats[1].severity = "high"
  /\ hiveThreats[2].type = "mev_attack" /\ hiveThreats[2].severity = "high"

\* C22: processHiveThreats emits the generic suspicious_pattern alert iff the
\* overall risk is above 0.7 and it emitted no rug_pull, flash_loan_attack or
\* mev_attack alert; its confidence is the confidence of the analysis; so an
\* analysis with an overall risk above 0.7 yields at least one alert.
C22_GenericAlert ==
  epc = "done" =>
    /\ Len(OfType("suspicious_pattern")) =
         (IF analysis.overallRisk > 70 /\ CategoryAlerts = <<>> THEN 1 ELSE 0)
    /\ \A i \in DOMAIN OfType("suspicious_pattern") :
         OfType("suspicious_pattern")[i].confidence = analysis.confidence
    /\ analysis.overallRisk > 70 => Len(hiveThreats) >= 1

\* an overall risk of 0.8 and a rug-pull risk on its threshold: the generic
\* alert is the only one
C22_Witness ==
  /\ epc = "done"
  /\ analysis.overallRisk = 80
  /\ analysis.rugPull = 50
  /\ analysis.confidence = 90
  /\ Len(hiveThreats) = 1
  /\ hiveThreats[1].type = "suspicious_pattern"
  /\ hiveThreats[1].confidence = 90

\* the response holds phrase k, in whatever case it is written
Mentions(k) == \E p \in response.phrases : Holds(p, k)

\* C23: for a response that mentions a rug pull and 'high risk' and none of
\* the flash-loan and MEV keywords, parsing and aggregation emit exactly one
\* alert: rug_pull, confidence 0.9, severity critical.
C23_RugPullHighRisk ==
  (/\ epc = "done"
   /\ response.present
   /\ Mentions("rug pull")
   /\ Mentions("high risk")
   /\ ~Mentions("flash loan") /\ ~Mentions("arbitrage")
   /\ ~Mentions("mev") /\ ~Mentions("front-running") /\ ~Mentions("sandwich"))
  => /\ Len(hiveThreats) = 1
     /\ hiveThreats[1].type = "rug_pull"
     /\ hiveThreats[1].confidence = 90
     /\ hiveThreats[1].severity = "critical"

\* such a response, written in capitals, gave the one alert
C23_Witness ==
  /\ epc = "done"
  /\ response.capitals
  /\ response.phrases = {"rug pull", "high risk", "unlikely"}
  /\ Len(hiveThreats) = 1
  /\ hiveThreats[1].type = "rug_pull"

\* the alert in hand qualifies for mitigation
Qualifies ==
  /\ mitigationEnabled
  /\ threat.severity = "critical"
  /\ threat.confidence > 80

\* C24: an alert of severity medium, high or critical is passed to sendAlert
\* as soon as it is handled; an alert of severity low is stored in the threat
\* history and never passed to sendAlert.
C24_DispatchBySeverity ==
  tpc # "idle" =>
    /\ threat.id \in DOMAIN threatHistory
    /\ threat.severity \in {"medium", "high", "critical"} =>
         /\ alertCalls >= 1
         /\ steps # <<>>
         /\ steps[1] = <<"sendAlert", FALSE>>
    /\ threat.severity = "low" =>
         /\ alertCalls = 0
         /\ steps = <<>>
         /\ attempts = NoAttempts

\* a low alert has been through the handler: stored, not sent
C24_Witness ==
  /\ tpc = "done"
  /\ threat.severity = "low"
  /\ threat.id \in DOMAIN threatHistory
  /\ alertCalls = 0
  /\ channels # {}

\* what is done with an alert that qualifies for mitigation, in order
MitigationOrder ==
  << <<"sendAlert", FALSE>>, <<"mitigation">>, <<"mitigated">>,
     <<"sendAlert", TRUE>> >>

\* C25: for an alert that qualifies for mitigation the order is: sendAlert
\* with mitigated false, the mitigation actions, mitigated set to true,
\* sendAlert of the same alert with mitigated true; the flag is set only
\* after the mitigation actions, and an alert that does not qualify is
\* neither flagged nor sent a second time.
C25_MitigationOrder ==
  tpc # "idle" =>
    /\ Qualifies =>
         /\ tpc = "alert" => steps = SubSeq(MitigationOrder, 1, 1)
         /\ tpc \in {"mitigationAlert", "done"} => steps = MitigationOrder
    /\ ~Qualifies =>
         steps = (IF threat.severity = "low" THEN <<>>
                  ELSE SubSeq(MitigationOrder, 1, 1))
    /\ threat.mitigated <=> (\E i \in DOMAIN steps : steps[i] = <<"mitigated">>)
    /\ threat.mitigated = threatHistory[threat.id].mitigated

\* a qualifying alert is through all four steps
C25_Witness ==
  /\ tpc = "done"
  /\ Qualifies
  /\ steps = MitigationOrder
  /\ threat.mitigated
  /\ alertCalls = 2

\* C26: threat_detected is emitted exactly once for every alert handled, with
\* the alert, when its handling is over: whether it was sent out or not,
\* whatever the deliveries ended in, and whether it was mitigated or not.
C26_EventPerAlert ==
  /\ [](/\ Len(emitted) = threatsDetected - (IF tpc = "idle" THEN 0 ELSE 1)
        /\ \A i, j \in DOMAIN emitted : emitted[i].id = emitted[j].id => i = j
        /\ \A i \in DOMAIN emitted :
             /\ emitted[i].id \in DOMAIN threatHistory
             /\ emitted[i] = threatHistory[emitted[i].id]
        /\ tpc # "idle" => \A i \in DOMAIN emitted : emitted[i].id # threat.id)
  /\ [][tpc = "done" => emitted' = Append(emitted, threat)]_vars
  /\ [][tpc # "done" => emitted' = emitted]_vars

\* an event for a low alert that was not sent and one for a mitigated alert
C26_Witness ==
  /\ Len(emitted) = 2
  /\ emitted[1].severity = "low"
  /\ emitted[2].mitigated
  /\ tpc = "idle"

\* C27: every alert handed to handleThreat is in the threat history under its
\* id, and no entry is removed or replaced: the history has as many entries
\* as threatsDetected counts.
C27_HistoryKeepsAll ==
  /\ [](/\ Cardinality(DOMAIN threatHistory) = threatsDetected
        /\ Cardinality(firedFor) = threatsDetected
        /\ \A f \in firedFor :
             \E id \in DOMAIN threatHistory :
               /\ threatHistory[id].transactionHash = f[2]
               /\ threatHistory[id].id = id
               /\ id[1] = f[1]
        /\ tpc # "idle" => threat.id \in DOMAIN threatHistory)
  /\ [][\A id \in DOMAIN threatHistory :
          /\ id \in DOMAIN threatHistory'
          /\ threatHistory'[id].type = threatHistory[id].type
          /\ threatHistory'[id].transactionHash = threatHistory[id].transactionHash
       ]_vars

\* two detectors fired for one transaction: two entries
C27_Witness ==
  /\ threatsDetected = 2
  /\ Cardinality(DOMAIN threatHistory) = 2
  /\ \A id \in DOMAIN threatHistory : threatHistory[id].transactionHash = 1

\* C28: no operation changes the type, severity, confidence, transaction
\* hash or block number of an alert; mitigated starts false and only goes
\* from false to true.
C28_OnlyMitigatedChanges ==
  /\ [][\A id \in DOMAIN threatHistory :
          /\ threatHistory'[id].type = threatHistory[id].type
          /\ threatHistory'[id].severity = threatHistory[id].severity
          /\ threatHistory'[id].confidence = threatHistory[id].confidence
          /\ threatHistory'[id].transactionHash = threatHistory[id].transactionHash
          /\ threatHistory'[id].blockNumber = threatHistory[id].blockNumber
          /\ threatHistory[id].mitigated => threatHistory'[id].mitigated
       ]_vars
  /\ [][\A id \in DOMAIN threatHistory' \ DOMAIN threatHistory :
          ~threatHistory'[id].mitigated]_vars
  /\ [][(tpc # "idle" /\ tpc' # "idle") =>
          /\ [threat' EXCEPT !.mitigated = FALSE] = [threat EXCEPT !.mitigated = FALSE]
          /\ threat.mitigated => threat'.mitigated
       ]_vars
  /\ [](\A i \in DOMAIN emitted :
          [emitted[i] EXCEPT !.mitigated = FALSE] =
            [threatHistory[emitted[i].id] EXCEPT !.mitigated = FALSE])

\* an alert of the history has been flagged, another has not
C28_Witness ==
  /\ \E id \in DOMAIN threatHistory : threatHistory[id].mitigated
  /\ \E id \in DOMAIN threatHistory : ~threatHistory[id].mitigated
  /\ tpc = "idle"

\* the step that ends the processing of the transaction in hand
TransactionReturns ==
  /\ pc = "inTx"
  /\ <<pc, blockNum, txIdx>>' # <<pc, blockNum, txIdx>>

\* what follows the transaction in hand: the next entry of the block with a
\* hash; after the last one the next block of the range; after the last
\* block the cursor's advance and the adaptive timer
LoopGoesOn ==
  /\ transactionsAnalyzed' = transactionsAnalyzed + 1
  /\ LET j == NextTx(txs, txIdx + 1)
     IN  IF j <= Len(txs)
         THEN /\ pc' = "inTx"
              /\ txIdx' = j
              /\ txs' = txs
              /\ blockNum' = blockNum
              /\ txSeen' = Append(txSeen, <<blockNum, j>>)
         ELSE /\ blocksProcessed' = blocksProcessed + 1
              /\ IF blockNum + 1 <= latestBlock
                 THEN /\ pc' = "getBlock"
                      /\ blockNum' = blockNum + 1
                      /\ analysed' = Append(analysed, blockNum + 1)
                 ELSE /\ pc' = "timer"
                      /\ timerKind' = "adaptive"
                      /\ currentBlock' = latestBlock

\* C29: an error raised while a transaction is analysed or its alerts are
\* handled is caught by processTransaction and ends neither the block nor
\* the pass: the transaction counts as analysed, the next entry of the block
\* is handed over, after the last one the next block of the range is
\* analysed, and after the last block the pass ends as one without error
\* (cursor at the head, adaptive timer).
C29_ErrorsDoNotAbort ==
  /\ [](raisedBy = "analysis" => caughtBy = "processTransaction")
  /\ []((pc = "timer" /\ raisedBy = "analysis") =>
          (timerKind = "adaptive" /\ currentBlock = latestBlock))
  /\ [][TransactionReturns => LoopGoesOn]_vars

\* after an error in the first block of a pass, a transaction of the second
\* block is in progress
C29_Witness ==
  /\ raisedBy = "analysis"
  /\ caughtBy = "processTransaction"
  /\ pc = "inTx"
  /\ blockNum = passFrom + 2
  /\ Len(txSeen) = 1

\* C30: the step that admits a call, the one after which its request is out,
\* leaves the purged window with a new timestamp of that moment.
C30_StampAtAdmission ==
  [][(hpc = "idle" /\ hpc' = "call") =>
       requestTimestamps' = Append(Purged(requestTimestamps, now), now)]_vars

\* the transaction of the call in hand meets one of the three tests
MeetsATest ==
  \/ htx.value > 30
  \/ htx.gasPrice > 120
  \/ htx.inputLen > 100

\* C31: an external call is made only for a transaction of value above
\* flashLoanMinValue, gas price above gasAnomalyThreshold or input longer
\* than 100; for any other analyzeTransaction returns null without a request
\* and without a stamp in the window; with enrichment disabled (or no API
\* key) it returns null for every transaction and no request is ever sent.
C31_EligibleOnly ==
  /\ [](/\ (hpc \in {"call", "wait"} \/ txCalls >= 1) => (hiveOn /\ MeetsATest)
        /\ (hpc = "done" /\ ~MeetsATest) => (hres = "null" /\ txCalls = 0)
        /\ ~hiveOn => /\ sent = <<>>
                      /\ requestTimestamps = <<>>
                      /\ hpc = "done" => hres = "null")
  /\ [][(hpc = "idle" /\ hpc' # "idle" /\ ~MeetsATest') =>
          /\ hpc' = "done"
          /\ sent' = sent
          /\ requestCount' = requestCount
          /\ requestTimestamps' = (IF hiveOn THEN Purged(requestTimestamps, now)
                                   ELSE requestTimestamps)
       ]_vars

\* with enrichment on and budget left, the transaction that sits on all three
\* thresholds was turned away without a request
C31_Witness ==
  /\ hiveOn
  /\ hpc = "done"
  /\ htx = [value |-> 30, gasPrice |-> 120, inputLen |-> 100]
  /\ hres = "null"
  /\ txCalls = 0
  /\ Len(requestTimestamps) < 18
  /\ sent # <<>>

\* C32: for a transaction that meets none of the eligibility tests the
\* limiter is not consulted: canMakeRequest is not called and the window of
\* timestamps is left as it was.
C32_EligibilityBeforeLimiter ==
  [][(hpc = "idle" /\ hpc' # "idle" /\ ~MeetsATest') =>
       /\ ~limiterAsked'
       /\ requestTimestamps' = requestTimestamps]_vars

\* C33: the sliding window belongs to the unordered pair of sender and
\* recipient: what is read under A-B is what is read under B-A, so the
\* transactions of both directions sit in one window.
C33_UnorderedPairWindow ==
  \A a, b \in Addresses :
    recentTransactions[<<a, b>>] = recentTransactions[<<b, a>>]

\* C34: one detectThreats call appends its transaction once to the window of
\* its pair and to no other, adds 1 to the counter of the recipient when the
\* transaction has a recipient and a payload other than '0x' and changes no
\* other counter, and the detectors run on the windows and counters as they
\* are after that, however many of them fire.
C34_BookkeepingOnce ==
  [][ltx' # NoLocalTx =>
       LET k == <<ltx'.from, ltx'.to>>
           old == recentTransactions[k]
           new == recentTransactions'[k]
           n == Len(new)
       IN  /\ n = (IF Len(old) = 10 THEN 10 ELSE Len(old) + 1)
           /\ new[n] = ltx'
           /\ \A i \in 1..(n - 1) : new[i] = old[i + Len(old) + 1 - n]
           /\ \A j \in PairKeys \ {k} : recentTransactions'[j] = recentTransactions[j]
           /\ \A a \in Addresses :
                contractInteractions'[a] =
                  contractInteractions[a] +
                    (IF a = ltx'.to /\ ltx'.inputLen # 2 THEN 1 ELSE 0)
           /\ threats' = LocalThreats(recentTransactions', contractInteractions', ltx')
    ]_vars

\* two detectors fired on a transaction that is the only entry of its window
\* and the only interaction counted
C34_Witness ==
  /\ Len(threats) >= 2
  /\ recentTransactions[<<ltx.from, ltx.to>>] = <<ltx>>
  /\ ltx.to # NoAddress
  /\ contractInteractions[ltx.to] = 1
  /\ TotalTracked(recentTransactions, PairKeys) = 1

\* the alerts of the list that come from the enrichment
FromHive(list) == SelectSeq(list, LAMBDA a : a.pattern = "hive_intelligence")

\* C35: the heuristic alerts of a transaction are in the list before the
\* enrichment is asked, stay there whatever becomes of the call, and are all
\* that analyzeThreatPatterns returns when analyzeTransaction yields null
\* (enrichment off, transaction not eligible, budget refused, every attempt
\* failed, empty or malformed response); alerts of an analysis come after
\* them in the list, which is the order in which they are handled.
C35_HeuristicsSurvive ==
  /\ [](hpc # "idle" =>
          /\ threats = LocalThreats(recentTransactions, contractInteractions, ltx)
          /\ FromHive(threats) = <<>>)
  /\ [](hpc = "done" => hres \in {"null", "analysis"})
  /\ [][(hpc = "done" /\ hpc' = "idle") =>
          /\ hres # "analysis" => threats' = threats
          /\ Len(threats') >= Len(threats)
          /\ SubSeq(threats', 1, Len(threats)) = threats
          /\ FromHive(threats') = SubSeq(threats', Len(threats) + 1, Len(threats'))
          /\ ltx' = ltx
       ]_vars

\* a transaction the enrichment holds not eligible raised the MEV alert: the
\* call ended in null without a request and the alert is in the list
C35_Witness ==
  /\ hiveOn
  /\ hpc = "done"
  /\ hres = "null"
  /\ txCalls = 0
  /\ Len(requestTimestamps) < 18
  /\ ltx.gasPrice = 61
  /\ Len(threats) = 1
  /\ threats[1].type = "mev_attack"

\* the monitorLoop closures inside a pass, and those with a timer pending
InPass == {i \in LoopIds : loops[i].pc \in {"getLatest", "analyze"}}
Pending == {i \in LoopIds : loops[i].pc = "timer"}

\* C36: whatever start() and stop() calls are made, at most one pass is in
\* progress, at most one next iteration is pending, and no block number is
\* analysed twice.
C36_SinglePass ==
  /\ Cardinality(InPass) <= 1
  /\ Cardinality(Pending) <= 1
  /\ \A b \in DOMAIN analysedCount : analysedCount[b] <= 1

\* C37: if monitoring stays active and the RPC calls succeed in the end, the
\* cursor reaches every value the head of the chain takes.
C37_HeadReached ==
  (<>[]monitoringActive) =>
    \A h \in 1..MaxHead : (chainHead = h) ~> (currentBlock >= h)

\* the mitigation gate of handleThreat for alert a
MitigationDue(a) ==
  /\ mitigationEnabled
  /\ a.severity = "critical"
  /\ a.confidence > 80

\* C38: an alert of severity critical comes from the enrichment, is of type
\* rug_pull or flash_loan_attack and has confidence 0.9, so with mitigation
\* enabled it passes the mitigation gate; no heuristic alert is critical and
\* none passes the gate.
C38_CriticalFromEnrichment ==
  /\ \A i \in DOMAIN threats :
       /\ threats[i].severity \in {"low", "medium", "high"}
       /\ threats[i].pattern # "hive_intelligence"
       /\ ~MitigationDue(threats[i])
  /\ \A i \in DOMAIN hiveThreats :
       hiveThreats[i].severity = "critical" =>
         /\ hiveThreats[i].type \in {"rug_pull", "flash_loan_attack"}
         /\ hiveThreats[i].confidence = 90
         /\ mitigationEnabled => MitigationDue(hiveThreats[i])

\* a transaction with two heuristic alerts of severity high and a critical
\* flash-loan alert of the enrichment, mitigation enabled
C38_Witness ==
  /\ epc = "done"
  /\ mitigationEnabled
  /\ Len(threats) = 2
  /\ \A i \in DOMAIN threats : threats[i].severity = "high"
  /\ \E i \in DOMAIN hiveThreats :
       /\ hiveThreats[i].type = "flash_loan_attack"
       /\ hiveThreats[i].severity = "critical"

\* C39: the overall risk of a parsed response is 0.8, 0.5, 0.2 or 0.3, so the
\* generic suspicious_pattern alert of processHiveThreats, raised at 0.8
\* only, always has severity medium.
C39_GenericIsMedium ==
  /\ (epc \in {"parsed", "done"} /\ analysis.parsed) =>
       analysis.overallRisk \in {80, 50, 20, 30}
  /\ epc = "done" =>
       \A i \in DOMAIN hiveThreats :
         hiveThreats[i].type = "suspicious_pattern" =>
           /\ hiveThreats[i].severity = "medium"
           /\ analysis.overallRisk = 80

\* a response that speaks of a dangerous transaction, of no category and in
\* no uncertain terms: the generic alert alone, of severity medium
C39_Witness ==
  /\ epc = "done"
  /\ response.phrases = {"dangerous", "confident"}
  /\ ~response.capitals
  /\ Len(hiveThreats) = 1
  /\ hiveThreats[1].type = "suspicious_pattern"
  /\ hiveThreats[1].severity = "medium"
  /\ hiveThreats[1].confidence = 90

====
